---- MODULE Spec2Model ----
(***************************************************************************)
(* A model of library/core/src/ptr/const_ptr.rs (raw const pointers) and   *)
(* library/core/src/introwospection.rs (compile-time reflection).          *)
(*                                                                         *)
(* A raw pointer `*const T` is the record [prov, addr, sz]:                *)
(*   prov  the allocated object it is attached to (0: none, an integer     *)
(*         address such as null), its provenance;                          *)
(*   addr  its address, a usize;                                           *)
(*   sz    size_of::<T>(), which the pointer's type fixes.                 *)
(* Operations whose result the source leaves open (undefined behaviour,    *)
(* const evaluation that cannot decide a comparison) are operators that    *)
(* return the SET of their possible outcomes; the actions choose one.      *)
(***************************************************************************)
EXTENDS Integers, Sequences, FiniteSets, TLC

(***************************************************************************)
(* Bounds of the model.                                                    *)
(***************************************************************************)
\* usize::BITS, scaled down: the machine word has AddrBits bits.
AddrBits == 4
\* The largest size_of::<T>() of a pointee type (0 is a zero-sized type).
MaxElemSize == 2
\* The largest value of one byte of memory.
MaxByte == 1

(***************************************************************************)
(* Machine integers.                                                       *)
(***************************************************************************)
AddrSpace == 2 ^ AddrBits
USIZE_MAX == AddrSpace - 1
ISIZE_MAX == (2 ^ (AddrBits - 1)) - 1
ISIZE_MIN == 0 - (2 ^ (AddrBits - 1))
Usize == 0 .. USIZE_MAX
Isize == ISIZE_MIN .. ISIZE_MAX
ElemSizes == 0 .. MaxElemSize

\* `v as usize`: the value modulo 2^w.
as_usize(v) == v % AddrSpace
\* `v as isize`: the same bits read as a two's-complement number.
as_isize(v) == IF (v % AddrSpace) > ISIZE_MAX THEN (v % AddrSpace) - AddrSpace ELSE v % AddrSpace
\* isize::wrapping_sub
isize_wrapping_sub(a, b) == as_isize(a - b)
\* isize::wrapping_neg
isize_wrapping_neg(a) == as_isize(0 - a)
\* usize::is_power_of_two
is_power_of_two(v) == \E k \in 0 .. (AddrBits - 1) : v = 2 ^ k

(***************************************************************************)
(* Allocated objects and pointers.                                         *)
(***************************************************************************)
\* Two allocated objects, adjacent in memory: object 1 is [2, 6), object 2
\* is [6, 10).  Neither contains address 0, wraps the address space or is
\* larger than isize::MAX bytes.
AllocBase == <<2, 6>>
AllocLen == <<4, 4>>
Allocs == 1 .. Len(AllocBase)
NoProv == 0

\* The result of an operation whose behaviour is undefined (LLVM's poison).
Poison(sz) == [prov |-> 0 - 1, addr |-> 0, sz |-> sz]
IsPoison(ptr) == ptr.prov = 0 - 1
Ptr(prov, addr, sz) == [prov |-> prov, addr |-> addr, sz |-> sz]
\* ptr::null::<T>()
null(sz) == Ptr(NoProv, 0, sz)
AllPtrs(sz) == {Ptr(pr, a, sz) : pr \in {NoProv} \cup Allocs, a \in Usize}
AllocEnd(o) == AllocBase[o] + AllocLen[o]
\* "in bounds or one byte past the end of" the allocated object it is attached to
InBounds(ptr) ==
    /\ ptr.prov \in Allocs
    /\ AllocBase[ptr.prov] <= ptr.addr
    /\ ptr.addr <= AllocEnd(ptr.prov)
\* A read of size_of::<T>() bytes through the pointer stays inside its object.
Dereferenceable(ptr) ==
    /\ ptr.prov \in Allocs
    /\ AllocBase[ptr.prov] <= ptr.addr
    /\ ptr.addr + ptr.sz <= AllocEnd(ptr.prov)
    /\ (ptr.sz > 0 => ptr.addr < AllocEnd(ptr.prov))
\* The largest length of a raw slice.
MaxLen == 2
\* A raw slice `*const [T]`: a wide pointer, the data pointer with the number
\* of elements as metadata.
slice_from_raw_parts(data, n) ==
    [prov |-> data.prov, addr |-> data.addr, sz |-> data.sz, len |-> n]
WidePtrs(sz) == {slice_from_raw_parts(d, n) : d \in AllPtrs(sz), n \in 0 .. MaxLen}
IsWide(ptr) == "len" \in DOMAIN ptr
\* len(): the metadata of the raw slice.
len(ptr) == ptr.len

\* `*self == *other` on two raw pointers of one type: the addresses are
\* compared, and for raw slices the addresses and the lengths; the objects
\* the pointers are attached to play no part.
ptr_eq(a, b) == a.addr = b.addr /\ (IsWide(a) => len(a) = len(b))
\* `*self < *other`, `<=`, `>`, `>=` on two raw pointers of one type: the
\* addresses are compared as unsigned numbers, and raw slices with one
\* address by their lengths.
ptr_lt(a, b) == a.addr < b.addr \/ (a.addr = b.addr /\ IsWide(a) /\ len(a) < len(b))
ptr_le(a, b) == a.addr < b.addr \/ (a.addr = b.addr /\ (IsWide(a) => len(a) <= len(b)))
ptr_gt(a, b) == a.addr > b.addr \/ (a.addr = b.addr /\ IsWide(a) /\ len(a) > len(b))
ptr_ge(a, b) == a.addr > b.addr \/ (a.addr = b.addr /\ (IsWide(a) => len(a) >= len(b)))

\* PartialEq::eq
eq(a, b) == ptr_eq(a, b)
\* PartialOrd::lt, le, gt, ge
lt(a, b) == ptr_lt(a, b)
le(a, b) == ptr_le(a, b)
gt(a, b) == ptr_gt(a, b)
ge(a, b) == ptr_ge(a, b)
\* cmp comparing the addresses alone.
cmp_by_address(a, b) ==
    IF a.addr < b.addr THEN "Less" ELSE IF a.addr = b.addr THEN "Equal" ELSE "Greater"
\* Ord::cmp.  `self < other` and `self == other` compare two references to
\* pointers, which compares the pointers with lt and eq.
cmp(a, b) == IF lt(a, b) THEN "Less" ELSE IF eq(a, b) THEN "Equal" ELSE "Greater"
\* PartialOrd::partial_cmp.  Some(v) is the record [some |-> TRUE, ref |-> v].
partial_cmp(a, b) == [some |-> TRUE, ref |-> cmp(a, b)]

\* `self as *const U` / cast::<U>(), U: Sized: the address and provenance
\* stay, the pointee type (hence its size) changes, and the result is a thin
\* pointer (the metadata of a wide pointer is dropped).
cast(ptr, sz) == Ptr(ptr.prov, ptr.addr, sz)
\* addr(): `self as usize`
addr(ptr) == ptr.addr

(***************************************************************************)
(* Outcomes of a call that returns a number or a boolean.                  *)
(***************************************************************************)
Ret(v) == [kind |-> "ret", val |-> v]
Panic == [kind |-> "panic", val |-> 0]
UB == [kind |-> "ub", val |-> 0]
NoOutcome == [kind |-> "none", val |-> 0]
\* Division rounding toward zero, for a positive divisor.
TruncDiv(a, b) == IF a >= 0 THEN a \div b ELSE 0 - ((0 - a) \div b)

(***************************************************************************)
(* offset and wrapping_offset.                                             *)
(***************************************************************************)
\* intrinsics::arith_offset: `count` is in units of T, the address moves by
\* count * size_of::<T>() bytes modulo 2^w, and the result "remembers" the
\* allocated object that self points to.
arith_offset(ptr, count) ==
    IF IsPoison(ptr) THEN ptr
    ELSE [ptr EXCEPT !.addr = as_usize(ptr.addr + count * ptr.sz)]

\* The safety contract of `offset`: start and result in bounds (or one past
\* the end) of the same allocated object, the byte offset fits an isize and
\* the sum does not wrap around the address space.
OffsetDefined(ptr, count) ==
    /\ ~IsPoison(ptr)
    /\ InBounds(ptr)
    /\ count * ptr.sz \in Isize
    /\ AllocBase[ptr.prov] <= ptr.addr + count * ptr.sz
    /\ ptr.addr + count * ptr.sz <= AllocEnd(ptr.prov)

\* intrinsics::offset: the pointer arith_offset gives when the contract
\* holds; otherwise the behaviour is undefined and the build may produce
\* that pointer or poison.
intrinsics_offset(ptr, count) ==
    IF OffsetDefined(ptr, count) THEN {arith_offset(ptr, count)}
    ELSE {arith_offset(ptr, count), Poison(ptr.sz)}

\* offset, moving one element too far.
offset_off_by_one(ptr, count) == intrinsics_offset(ptr, count + 1)

offset(ptr, count) == intrinsics_offset(ptr, count)

\* wrapping_offset as an integer-to-pointer cast would give it: the result
\* is attached to whatever object lies at the new address.
wrapping_offset_reattached(ptr, count) ==
    LET res == arith_offset(ptr, count)
        at == {o \in Allocs : AllocBase[o] <= res.addr /\ res.addr < AllocEnd(o)}
    IN  IF at = {} THEN [res EXCEPT !.prov = NoProv]
        ELSE [res EXCEPT !.prov = CHOOSE o \in at : TRUE]

wrapping_offset(ptr, count) == arith_offset(ptr, count)

\* The targets a build is made for.  On CHERI a pointer is a capability: it
\* holds the bounds of its object in a compressed form, which can only
\* represent addresses up to a distance from the object; moved further, the
\* capability is marked invalid, and stays so when moved back.
Targets == {"flat", "cheri"}
\* The addresses a capability for the object of ptr can hold: down to 1/8 of
\* the size of the object below it and up to 1/4 of its size above its upper
\* bound (the floors of 1 KiB and 2 KiB are scaled away with the address
\* space).
Representable(ptr) ==
    /\ ptr.prov \in Allocs
    /\ AllocBase[ptr.prov] - (AllocLen[ptr.prov] \div 8) <= ptr.addr
    /\ ptr.addr <= AllocEnd(ptr.prov) + (AllocLen[ptr.prov] \div 4)
\* The pointer can exist, as a valid pointer, on the target.
ValidOn(tgt, ptr) == tgt = "flat" \/ Representable(ptr)

\* wrapping_add(count): wrapping_offset(count as isize)
wrapping_add(ptr, count) == wrapping_offset(ptr, as_isize(count))

\* wrapping_sub without the wrapping_neg.
wrapping_sub_unnegated(ptr, count) == wrapping_offset(ptr, as_isize(count))

\* wrapping_sub(count): wrapping_offset((count as isize).wrapping_neg())
wrapping_sub(ptr, count) == wrapping_offset(ptr, isize_wrapping_neg(as_isize(count)))

\* add(count): offset(count as isize)
add(ptr, count) == offset(ptr, as_isize(count))

\* with_addr without the casts to and from `*const u8`: the offset is
\* applied in units of T.
with_addr_in_elements(ptr, a) ==
    LET self_addr == as_isize(addr(ptr))
        dest_addr == as_isize(a)
        off == isize_wrapping_sub(dest_addr, self_addr)
    IN  wrapping_offset(ptr, off)

with_addr(ptr, a) ==
    LET self_addr == as_isize(addr(ptr))
        dest_addr == as_isize(a)
        off == isize_wrapping_sub(dest_addr, self_addr)
    IN  cast(wrapping_offset(cast(ptr, 1), off), ptr.sz)

(***************************************************************************)
(* offset_from.                                                            *)
(***************************************************************************)
\* The safety contract of `offset_from`: both pointers in bounds (or one
\* past the end) of the same allocated object, both derived from a pointer
\* to that object, and a byte distance that is an exact multiple of
\* size_of::<T>().
OffsetFromDefined(self, origin) ==
    /\ ~IsPoison(self) /\ ~IsPoison(origin)
    /\ InBounds(self) /\ InBounds(origin)
    /\ self.prov = origin.prov
    /\ self.sz > 0
    /\ (self.addr - origin.addr) % self.sz = 0

\* intrinsics::ptr_offset_from: the distance in bytes divided by
\* size_of::<T>(); outside the contract (and for a stride of zero) the
\* behaviour is undefined.
ptr_offset_from(self, origin) ==
    IF OffsetFromDefined(self, origin)
    THEN {Ret((self.addr - origin.addr) \div self.sz)}
    ELSE {UB} \cup
         (IF IsPoison(self) \/ IsPoison(origin) \/ self.sz = 0 THEN {}
          ELSE {Ret(TruncDiv(as_isize(self.addr - origin.addr), self.sz))})

\* offset_from with its operands exchanged.
offset_from_swapped(self, origin) ==
    LET pointee_size == self.sz
    IN  IF ~(0 < pointee_size /\ pointee_size <= ISIZE_MAX) THEN {Panic}
        ELSE ptr_offset_from(origin, self)

\* offset_from whose assertion lets a zero-sized type through.
offset_from_zst_unchecked(self, origin) ==
    LET pointee_size == self.sz
    IN  IF ~(pointee_size <= ISIZE_MAX) THEN {Panic}
        ELSE ptr_offset_from(self, origin)

offset_from(self, origin) ==
    LET pointee_size == self.sz
    IN  IF ~(0 < pointee_size /\ pointee_size <= ISIZE_MAX) THEN {Panic}
        ELSE ptr_offset_from(self, origin)

(***************************************************************************)
(* guaranteed_eq, guaranteed_ne, is_null, as_ref.                          *)
(***************************************************************************)
Modes == {"rt", "ctfe"}

\* intrinsics::ptr_guaranteed_eq.  At run time it behaves like
\* `self == other`.  In other contexts (const evaluation) the equality of
\* two pointers cannot always be determined: the answer may be a spurious
\* `false`, and `true` is given only to pointers that are equal.
ptr_guaranteed_eq(md, a, b) ==
    IF md = "rt" THEN {ptr_eq(a, b)}
    ELSE {FALSE, ptr_eq(a, b)}

\* intrinsics::ptr_guaranteed_ne.  At run time it behaves like
\* `self != other`; under const evaluation the answer may be a spurious
\* `false`, and `true` is given only to pointers that are unequal.
ptr_guaranteed_ne(md, a, b) ==
    IF md = "rt" THEN {~ptr_eq(a, b)}
    ELSE {FALSE, ~ptr_eq(a, b)}

\* guaranteed_eq comparing the objects the pointers are attached to.
guaranteed_eq_same_object(md, a, b) == {a.prov = b.prov}

guaranteed_eq(md, a, b) == ptr_guaranteed_eq(md, a, b)

\* guaranteed_ne calling the intrinsic of guaranteed_eq.
guaranteed_ne_calls_eq(md, a, b) == ptr_guaranteed_eq(md, a, b)

guaranteed_ne(md, a, b) == ptr_guaranteed_ne(md, a, b)

\* is_null that takes a raw slice of no element for not null.
is_null_with_metadata(md, ptr) ==
    {b /\ (IsWide(ptr) => len(ptr) # 0) : b \in guaranteed_eq(md, cast(ptr, 1), null(1))}

\* is_null asking guaranteed_ne instead of guaranteed_eq.
is_null_via_ne(md, ptr) == guaranteed_ne(md, cast(ptr, 1), null(1))

\* is_null: compared as thin `*const u8` pointers against null().
is_null(md, ptr) == guaranteed_eq(md, cast(ptr, 1), null(1))

\* Option<&T>
None(sz) == [some |-> FALSE, ref |-> Poison(sz)]
Some(ptr) == [some |-> TRUE, ref |-> ptr]

\* as_ref: None if the pointer is null, Some(&*self) otherwise.
as_ref(md, ptr) ==
    {IF n THEN None(ptr.sz) ELSE Some(ptr) : n \in is_null(md, ptr)}

\* as_mut of `*mut T`: None if the pointer is null, Some(&mut *self)
\* otherwise.
as_mut(md, ptr) ==
    {IF n THEN None(ptr.sz) ELSE Some(ptr) : n \in is_null(md, ptr)}

\* as_uninit_ref: None if the pointer is null, else Some of
\* `&*(self as *const MaybeUninit<T>)`; MaybeUninit<T> has the size of T.
as_uninit_ref(md, ptr) ==
    {IF n THEN None(ptr.sz) ELSE Some(cast(ptr, ptr.sz)) : n \in is_null(md, ptr)}

\* slice::from_raw_parts(data, len): the shared slice of len elements at
\* data.
from_raw_parts(data, n) ==
    [prov |-> data.prov, addr |-> data.addr, sz |-> data.sz, len |-> n]

\* as_uninit_slice without the metadata: the slice is built empty.
as_uninit_slice_empty(md, ptr) ==
    {IF n THEN None(ptr.sz) ELSE Some(from_raw_parts(cast(ptr, ptr.sz), 0)) :
        n \in is_null(md, ptr)}

\* as_uninit_slice: None if the raw slice is null, else Some of
\* slice::from_raw_parts(self as *const MaybeUninit<T>, self.len()).
as_uninit_slice(md, ptr) ==
    {IF n THEN None(ptr.sz) ELSE Some(from_raw_parts(cast(ptr, ptr.sz), len(ptr))) :
        n \in is_null(md, ptr)}

\* Option::unwrap_unchecked: undefined behaviour on None.
unwrap_unchecked(opt) == IF opt.some THEN {opt.ref} ELSE {Poison(opt.ref.sz)}

(***************************************************************************)
(* align_offset.                                                           *)
(***************************************************************************)
\* The element counts k for which self.wrapping_add(k) is aligned to align.
AligningCounts(ptr, align) ==
    {k \in Usize : as_usize(ptr.addr + k * ptr.sz) % align = 0}
Least(S) == CHOOSE k \in S : \A j \in S : k <= j

\* crate::ptr::align_offset, called by rt_impl: usize::MAX when the pointer
\* cannot be aligned, and it is permissible for it to return usize::MAX
\* always; otherwise the offset in elements of T.
ptr_align_offset(ptr, align) ==
    {Ret(USIZE_MAX)} \cup
    (IF AligningCounts(ptr, align) = {} THEN {}
     ELSE {Ret(Least(AligningCounts(ptr, align)))})

\* rt_impl returning the offset in bytes instead of in elements of T.
rt_impl_in_bytes(ptr, align) ==
    {Ret(USIZE_MAX), Ret((align - (ptr.addr % align)) % align)}

rt_impl(ptr, align) == ptr_align_offset(ptr, align)

ctfe_impl(ptr, align) == {Ret(USIZE_MAX)}

\* intrinsics::const_eval_select: the first function under const
\* evaluation, the second at run time.
const_eval_select(md, ctfe, rt) == IF md = "ctfe" THEN ctfe ELSE rt

\* align_offset checking the alignment on the run-time path only.
align_offset_checked_at_rt(md, ptr, align) ==
    const_eval_select(md, ctfe_impl(ptr, align),
                      IF ~is_power_of_two(align) THEN {Panic} ELSE rt_impl(ptr, align))

\* align_offset with the two functions of const_eval_select exchanged.
align_offset_select_swapped(md, ptr, align) ==
    IF ~is_power_of_two(align) THEN {Panic}
    ELSE const_eval_select(md, rt_impl(ptr, align), ctfe_impl(ptr, align))

align_offset(md, ptr, align) ==
    IF ~is_power_of_two(align) THEN {Panic}
    ELSE const_eval_select(md, ctfe_impl(ptr, align), rt_impl(ptr, align))

(***************************************************************************)
(* Reflected types and their field descriptors (introwospection.rs).       *)
(***************************************************************************)
\* The struct types reflected over, each field with its real layout:
\*   Triple  { a: u8, b: u8, c: u16 }          size 4, align 2
\*   Padded  { a: u8, <1 byte padding> b: u16 } size 4, align 2
\*   Bytes3  { a: u8, b: u8, c: u8 }           size 3, align 1
StructTypes == {"Triple", "Padded", "Bytes3"}
StructLayout(ty) ==
    CASE ty = "Triple" -> <<[name |-> "a", offset |-> 0, size |-> 1],
                            [name |-> "b", offset |-> 1, size |-> 1],
                            [name |-> "c", offset |-> 2, size |-> 2]>>
      [] ty = "Padded" -> <<[name |-> "a", offset |-> 0, size |-> 1],
                            [name |-> "b", offset |-> 2, size |-> 2]>>
      [] ty = "Bytes3" -> <<[name |-> "a", offset |-> 0, size |-> 1],
                            [name |-> "b", offset |-> 1, size |-> 1],
                            [name |-> "c", offset |-> 2, size |-> 1]>>
size_of(ty) == IF ty = "Bytes3" THEN 3 ELSE 4
align_of(ty) == IF ty = "Bytes3" THEN 1 ELSE 2

\* StructDescriptor::FIELD_COUNT of the descriptor the compiler provides.
FIELD_COUNT(ty) == Len(StructLayout(ty))

\* The implementation of FieldDescriptor<i> the compiler provides for the
\* i-th field (0-based) of ty.  DECLARATION_INDEX defaults to the const
\* parameter; NAME and BYTE_OFFSET have no default and are the field's.
FieldDescriptor(ty, i) ==
    [OwnerType |-> ty,
     TypeSize |-> StructLayout(ty)[i + 1].size,
     DECLARATION_INDEX |-> i,
     NAME |-> StructLayout(ty)[i + 1].name,
     BYTE_OFFSET |-> StructLayout(ty)[i + 1].offset]

(***************************************************************************)
(* Memory, and get_field.                                                  *)
(***************************************************************************)
Bytes == 0 .. MaxByte
\* The values of a type of n bytes.
Values(n) == [1 .. n -> Bytes]
\* A value of struct type ty: one value per field.
Instances(ty) ==
    {v \in [1 .. FIELD_COUNT(ty) -> UNION {Values(n) : n \in 1 .. 2}] :
        \A i \in 1 .. FIELD_COUNT(ty) : v[i] \in Values(StructLayout(ty)[i].size)}
\* Where a value of type ty can live: inside one allocated object, aligned.
Places(ty) ==
    {pl \in AllPtrs(size_of(ty)) : Dereferenceable(pl) /\ pl.addr % align_of(ty) = 0}

\* The byte of the instance vals of type ty stored at place pl that lies at
\* address a (0 for padding and for memory outside the instance).
ByteAt(ty, vals, pl, a) ==
    LET hit == {i \in 1 .. FIELD_COUNT(ty) :
                  /\ pl.addr + StructLayout(ty)[i].offset <= a
                  /\ a < pl.addr + StructLayout(ty)[i].offset + StructLayout(ty)[i].size}
    IN  IF hit = {} THEN 0
        ELSE LET i == CHOOSE j \in hit : TRUE
             IN  vals[i][a - (pl.addr + StructLayout(ty)[i].offset) + 1]
Store(ty, vals, pl) == [a \in Usize |-> ByteAt(ty, vals, pl, a)]

\* The value read through a reference: the size_of::<T>() bytes at its
\* address.  Reading through a reference that is not dereferenceable is
\* undefined behaviour, shown as the empty value.
ReadRef(memory, ref) ==
    IF ~Dereferenceable(ref) THEN << >>
    ELSE [k \in 1 .. ref.sz |-> memory[ref.addr + k - 1]]

\* get_field without the cast to `*const u8`: BYTE_OFFSET is applied in
\* units of the owner type.
get_field_in_owner_units(md, desc, owner_ref) ==
    LET field == {cast(x, desc.TypeSize) : x \in add(owner_ref, desc.BYTE_OFFSET)}
        opts == UNION {as_ref(md, f) : f \in field}
    IN  UNION {unwrap_unchecked(o) : o \in opts}

\* get_field::<Type, I>(owner): the reference the call may return.
get_field(md, desc, owner_ref) ==
    LET bytes == cast(owner_ref, 1)
        field == {cast(x, desc.TypeSize) : x \in add(bytes, desc.BYTE_OFFSET)}
        opts == UNION {as_ref(md, f) : f \in field}
    IN  UNION {unwrap_unchecked(o) : o \in opts}

\* get_field_mut without the `.add(Type::BYTE_OFFSET)`.
get_field_mut_at_base(md, desc, owner_ref) ==
    LET field == {cast(cast(owner_ref, 1), desc.TypeSize)}
        opts == UNION {as_mut(md, f) : f \in field}
    IN  UNION {unwrap_unchecked(o) : o \in opts}

\* get_field_mut::<Type, I>(owner): the reference the call may return.
get_field_mut(md, desc, owner_ref) ==
    LET bytes == cast(owner_ref, 1)
        field == {cast(x, desc.TypeSize) : x \in add(bytes, desc.BYTE_OFFSET)}
        opts == UNION {as_mut(md, f) : f \in field}
    IN  UNION {unwrap_unchecked(o) : o \in opts}

\* `*ref = w`: the size_of::<T>() bytes at the address of the reference
\* become those of w.  Writing through a reference that is not
\* dereferenceable is undefined behaviour, shown as no write.
WriteRef(memory, ref, w) ==
    IF ~Dereferenceable(ref) THEN memory
    ELSE [a \in DOMAIN memory |->
            IF ref.addr <= a /\ a < ref.addr + ref.sz
            THEN w[a - ref.addr + 1] ELSE memory[a]]

(***************************************************************************)
(* Descriptor traits and their implementations (introwospection.rs).       *)
(*                                                                         *)
(* An implementation of a descriptor trait is the record                   *)
(*   [trait, param, items]:                                                *)
(*   trait  the trait implemented;                                         *)
(*   param  the value of its const parameter (0 when it has none);         *)
(*   items  for every associated type and constant of the trait, << >>     *)
(*          when the implementation does not state it and <<v>> when it    *)
(*          states the value v.                                            *)
(* Option<T> is << >> for None and <<v>> for Some(v).                      *)
(***************************************************************************)
\* The largest const parameter (declaration index) of a descriptor.
MaxIndex == 2

Traits ==
    {"StructDescriptor", "EnumDescriptor", "FunctionDescriptor",
     "ParameterDescriptor", "FieldDescriptor", "VariantDescriptor"}
\* The traits with a const parameter.
Indexed == {"ParameterDescriptor", "FieldDescriptor", "VariantDescriptor"}

\* The associated types and constants a trait declares without a default
\* (those of the supertrait AdtDescriptor included): an implementation has
\* to state them.
Required(trait) ==
    CASE trait = "StructDescriptor" -> {"ID", "NAME", "Type"}
      [] trait = "EnumDescriptor" -> {"ID", "NAME", "Type"}
      [] trait = "FunctionDescriptor" -> {"ID", "NAME", "ReturnType"}
      [] trait = "ParameterDescriptor" -> {"OwnerType", "Type", "NAME"}
      [] trait = "FieldDescriptor" -> {"OwnerType", "Type", "NAME", "BYTE_OFFSET"}
      [] trait = "VariantDescriptor" -> {"OwnerType", "NAME", "DISCRIMINANT"}

\* The associated types and constants a trait declares with a default, and
\* the default of each, for the const parameter param.
Defaults(trait, param) ==
    CASE trait = "StructDescriptor" -> [ATTRIBUTES |-> << >>, FIELD_COUNT |-> 0]
      [] trait = "EnumDescriptor" ->
            [ATTRIBUTES |-> << >>, VariantsType |-> "NoType", VARIANT_COUNT |-> 0]
      [] trait = "FunctionDescriptor" ->
            [ATTRIBUTES |-> << >>, ParametersType |-> "NoType", PARAMETER_COUNT |-> 0]
      [] trait = "ParameterDescriptor" ->
            [PARAMETER_INDEX |-> param, ATTRIBUTES |-> << >>]
      [] trait = "FieldDescriptor" ->
            [DECLARATION_INDEX |-> param, ATTRIBUTES |-> << >>]
      [] trait = "VariantDescriptor" ->
            [FieldsType |-> "NoType", IntType |-> "NoType",
             DECLARATION_INDEX |-> param, FIELD_COUNT |-> 0,
             INTEGER_VALUE |-> << >>, ATTRIBUTES |-> << >>]

Defaulted(trait) == DOMAIN Defaults(trait, 0)
Items(trait) == Required(trait) \cup Defaulted(trait)
\* The constant that restates the const parameter.
IndexItem(trait) ==
    IF trait = "ParameterDescriptor" THEN "PARAMETER_INDEX" ELSE "DECLARATION_INDEX"
CountItems == {"FIELD_COUNT", "VARIANT_COUNT", "PARAMETER_COUNT"}
MarkerItems == {"VariantsType", "ParametersType", "FieldsType", "IntType"}

\* A value an implementation can state for an item that has a default; alt
\* chooses between two of them.
Override(item, param, alt) ==
    CASE item = "ATTRIBUTES" ->
            IF alt = 1 THEN << >> ELSE <<[name |-> "skip", value |-> << >>]>>
      [] item \in CountItems -> alt
      [] item \in MarkerItems -> IF alt = 1 THEN "NoType" ELSE "Described"
      [] item \in {"DECLARATION_INDEX", "PARAMETER_INDEX"} ->
            IF alt = 1 THEN param ELSE param + 1
      [] item = "INTEGER_VALUE" -> IF alt = 1 THEN << >> ELSE <<param>>

\* The implementation of trait for the const parameter param that leaves
\* out the required item `missing` ("none": states them all) and states,
\* of the items with a default, those of `stated`.
Impl(trait, param, missing, stated, alt) ==
    [trait |-> trait,
     param |-> param,
     items |-> [i \in Items(trait) |->
                  IF i \in Required(trait)
                  THEN (IF i = missing THEN << >> ELSE <<"stated">>)
                  ELSE IF i \in stated THEN <<Override(i, param, alt)>>
                  ELSE << >>]]
NoImpl == [trait |-> "none", param |-> 0, items |-> << >>]

\* The compiler accepts an implementation that states every item the trait
\* declares without a default.
Accepted(impl) == \A i \in Required(impl.trait) : impl.items[i] # << >>

\* ItemValue with the index constants defaulting to 0.
ItemValue_index_zero(impl, i) ==
    IF impl.items[i] # << >> THEN impl.items[i][1]
    ELSE IF i \in {"DECLARATION_INDEX", "PARAMETER_INDEX"} THEN 0
    ELSE Defaults(impl.trait, impl.param)[i]

\* ItemValue with the counts defaulting to 1.
ItemValue_count_one(impl, i) ==
    IF impl.items[i] # << >> THEN impl.items[i][1]
    ELSE IF i \in CountItems THEN 1
    ELSE Defaults(impl.trait, impl.param)[i]

\* ItemValue with FieldsType defaulting to the unit type ().
ItemValue_fields_unit(impl, i) ==
    IF impl.items[i] # << >> THEN impl.items[i][1]
    ELSE IF i = "FieldsType" THEN "()"
    ELSE Defaults(impl.trait, impl.param)[i]

\* ItemValue with INTEGER_VALUE defaulting to Some(0).
ItemValue_integer_some(impl, i) ==
    IF impl.items[i] # << >> THEN impl.items[i][1]
    ELSE IF i = "INTEGER_VALUE" THEN <<0>>
    ELSE Defaults(impl.trait, impl.param)[i]

\* The value of an item of an implementation: the one it states, the
\* trait's default otherwise.
ItemValue(impl, i) ==
    IF impl.items[i] # << >> THEN impl.items[i][1]
    ELSE Defaults(impl.trait, impl.param)[i]
\* The associated types and constants of an accepted implementation.
ItemValues(impl) == [i \in Items(impl.trait) |-> ItemValue(impl, i)]

(***************************************************************************)
(* Visitors (introwospection.rs).                                          *)
(*                                                                         *)
(* A visitor is the record [state, interior, overrides]:                   *)
(*   state      what the visitor holds;                                    *)
(*   interior   whether its visit_<kind> changes `state` through interior  *)
(*              mutability (visit_<kind> takes `&self`);                   *)
(*   overrides  whether its implementation gives visit_<kind>_mut a body   *)
(*              of its own.                                                *)
(* A call returns [out, vis]: Self::Output and the visitor after the call. *)
(***************************************************************************)
\* The largest `state` of a visitor before a call.
MaxVisitorState == 1

Kinds == {"struct", "enum", "function", "parameter", "field", "variant"}
IndexedKinds == {"parameter", "field", "variant"}
\* The descriptor types a visitor is called with.
DescriptorTypes == {"MeowInfo", "PurrInfo"}
Visitors ==
    [state : 0 .. MaxVisitorState, interior : BOOLEAN, overrides : BOOLEAN]
NoVisitor == [state |-> 0 - 1, interior |-> FALSE, overrides |-> FALSE]
NoCall == [kind |-> "none", ty |-> "none", idx |-> 0, mut |-> FALSE]

\* The body a visitor's implementation gives the required visit_<kind>:
\* an output that depends on everything the call is given.
VisitBody(kind, v, ty, idx) ==
    [out |-> <<kind, ty, idx, v.state>>,
     vis |-> IF v.interior THEN [v EXCEPT !.state = v.state + 1] ELSE v]
\* The body an overriding implementation gives visit_<kind>_mut.
VisitMutBody(kind, v, ty, idx) ==
    [out |-> <<kind, ty, idx, v.state + 1>>,
     vis |-> [v EXCEPT !.state = v.state + 1]]

visit_struct(v, ty) == VisitBody("struct", v, ty, 0)
visit_enum(v, ty) == VisitBody("enum", v, ty, 0)
visit_function(v, ty) == VisitBody("function", v, ty, 0)
visit_parameter(v, ty, idx) == VisitBody("parameter", v, ty, idx)
visit_field(v, ty, idx) == VisitBody("field", v, ty, idx)
visit_variant(v, ty, idx) == VisitBody("variant", v, ty, idx)

\* The provided visit_<kind>_mut: `return Self::visit_<kind>::<..>(&self);`
visit_struct_mut(v, ty) == visit_struct(v, ty)
visit_enum_mut(v, ty) == visit_enum(v, ty)
visit_function_mut(v, ty) == visit_function(v, ty)

\* visit_parameter_mut recording the call in the visitor.
visit_parameter_mut_recording(v, ty, idx) ==
    [visit_parameter(v, ty, idx) EXCEPT !.vis.state = @ + 1]

visit_parameter_mut(v, ty, idx) == visit_parameter(v, ty, idx)

\* visit_field_mut forwarding the next index.
visit_field_mut_next_index(v, ty, idx) == visit_field(v, ty, idx + 1)

visit_field_mut(v, ty, idx) == visit_field(v, ty, idx)
visit_variant_mut(v, ty, idx) == visit_variant(v, ty, idx)

\* v.visit_<kind>::<ty, idx>()
CallVisit(kind, v, ty, idx) ==
    CASE kind = "struct" -> visit_struct(v, ty)
      [] kind = "enum" -> visit_enum(v, ty)
      [] kind = "function" -> visit_function(v, ty)
      [] kind = "parameter" -> visit_parameter(v, ty, idx)
      [] kind = "field" -> visit_field(v, ty, idx)
      [] kind = "variant" -> visit_variant(v, ty, idx)
\* v.visit_<kind>_mut::<ty, idx>(): the implementation's own body if it
\* gives one, the provided one otherwise.
CallVisitMut(kind, v, ty, idx) ==
    IF v.overrides THEN VisitMutBody(kind, v, ty, idx)
    ELSE CASE kind = "struct" -> visit_struct_mut(v, ty)
           [] kind = "enum" -> visit_enum_mut(v, ty)
           [] kind = "function" -> visit_function_mut(v, ty)
           [] kind = "parameter" -> visit_parameter_mut(v, ty, idx)
           [] kind = "field" -> visit_field_mut(v, ty, idx)
           [] kind = "variant" -> visit_variant_mut(v, ty, idx)

(***************************************************************************)
(* The compiler's side of reflection: `introwospect<T>` provides the       *)
(* descriptor implementations of a type and `introwospect_over` drives a   *)
(* visitor over them.                                                      *)
(***************************************************************************)
\* The declarations reflected over, besides the structs of StructTypes:
\*   pub struct Meow { pub purr_level: i32, hairballs: i32,
\*                     pub scratch_couch: SystemTime }
\*   pub struct Unit;
\*   pub enum Plain { A, B(u8) }
\*   #[repr(u8)] pub enum Coded { Lo = 1, Mid, Hi = 5 }
\*   pub enum E0 { A }
\*   pub enum E1 { A() }
\*   pub fn purr(level: i32, times: u8)
EnumTypes == {"Plain", "Coded", "E0", "E1"}
FunctionTypes == {"purr"}
ReflectTypes == StructTypes \cup {"Meow", "Unit"} \cup EnumTypes \cup FunctionTypes
\* The kind of member a declaration has.
MemberKind(ty) ==
    IF ty \in EnumTypes THEN "variant"
    ELSE IF ty \in FunctionTypes THEN "parameter"
    ELSE "field"
\* The members of a declaration, in declaration order.
MemberDecls(ty) ==
    CASE ty \in StructTypes ->
            [k \in 1 .. Len(StructLayout(ty)) |->
                [name |-> StructLayout(ty)[k].name, public |-> TRUE,
                 offset |-> StructLayout(ty)[k].offset]]
      [] ty = "Meow" -> <<[name |-> "purr_level", public |-> TRUE, offset |-> 0],
                          [name |-> "hairballs", public |-> FALSE, offset |-> 4],
                          [name |-> "scratch_couch", public |-> TRUE, offset |-> 8]>>
      [] ty = "Unit" -> << >>
      [] ty = "Plain" ->
            <<[name |-> "A", explicit |-> << >>, list |-> FALSE, fields |-> 0],
              [name |-> "B", explicit |-> << >>, list |-> TRUE, fields |-> 1]>>
      [] ty = "Coded" ->
            <<[name |-> "Lo", explicit |-> <<1>>, list |-> FALSE, fields |-> 0],
              [name |-> "Mid", explicit |-> << >>, list |-> FALSE, fields |-> 0],
              [name |-> "Hi", explicit |-> <<5>>, list |-> FALSE, fields |-> 0]>>
      [] ty = "E0" ->
            <<[name |-> "A", explicit |-> << >>, list |-> FALSE, fields |-> 0]>>
      [] ty = "E1" ->
            <<[name |-> "A", explicit |-> << >>, list |-> TRUE, fields |-> 0]>>
      [] ty = "purr" -> <<[name |-> "level"], [name |-> "times"]>>
\* The integer type of #[repr(IntType)], None without the attribute.
Repr(ty) == IF ty = "Coded" THEN <<"u8">> ELSE << >>
\* Where a type is reflected from: its defining scope or another one.
Scopes == {"inside", "outside"}

\* The discriminant value of the variant at position i (0-based): the
\* explicit one, else one more than the previous variant's, 0 for the first.
RECURSIVE discriminant_at(_, _)
discriminant_at(ty, i) ==
    IF MemberDecls(ty)[i + 1].explicit # << >> THEN MemberDecls(ty)[i + 1].explicit[1]
    ELSE IF i = 0 THEN 0
    ELSE discriminant_at(ty, i - 1) + 1
\* mem::discriminant(&instance): the tag of the variant the instance holds.
discriminant(ty, held) == discriminant_at(ty, held)
\* `instance as IntType`, for an enum with #[repr(IntType)].
as_int(ty, held) == discriminant_at(ty, held)

\* Every declared member reflectable, from any scope.
Reflectable_private_too(ty, scope) == MemberDecls(ty)

\* The members of ty that can be reflected from scope: a field is
\* reflectable only from a scope that could access it directly.
Reflectable(ty, scope) ==
    IF MemberKind(ty) = "field"
    THEN SelectSeq(MemberDecls(ty), LAMBDA f : f.public \/ scope = "inside")
    ELSE MemberDecls(ty)

\* The implementation of trait for the const parameter param that states
\* the items of the record `stated`, with their values.
ImplOf(trait, param, stated) ==
    [trait |-> trait,
     param |-> param,
     items |-> [i \in Items(trait) |->
                  IF i \in DOMAIN stated THEN <<stated[i]>> ELSE << >>]]

\* FIELD_COUNT / VARIANT_COUNT / PARAMETER_COUNT counting every declared
\* member, reflectable or not.
ProvidedCount_declared(ty, scope) == Len(MemberDecls(ty))

\* The count the provided descriptor of ty states.
ProvidedCount(ty, scope) == Len(Reflectable(ty, scope))

\* DISCRIMINANT taken from one instance of the enum, whatever the variant.
ProvidedDiscriminant_of_first(ty, i) == discriminant_at(ty, 0)

\* The DISCRIMINANT the provided descriptor of variant i states.
ProvidedDiscriminant(ty, i) == discriminant_at(ty, i)

\* INTEGER_VALUE holding the declaration index of the variant.
ProvidedIntegerValue_index(ty, i) == i

\* The INTEGER_VALUE the provided descriptor of variant i states, when the
\* enum has a #[repr(IntType)] and the value of the variant is known.
ProvidedIntegerValue(ty, i) == discriminant_at(ty, i)

\* The provided VariantDescriptor<i> of the enum ty; `known` are the
\* variants whose integer value is known.
VariantImpl(ty, i, known) ==
    LET v == MemberDecls(ty)[i + 1]
        base == [OwnerType |-> ty, NAME |-> v.name,
                 DISCRIMINANT |-> ProvidedDiscriminant(ty, i)]
        fields == IF v.list
                  THEN base @@ [FIELD_COUNT |-> v.fields,
                                FieldsType |-> IF v.fields = 0 THEN "()"
                                               ELSE "Described"]
                  ELSE base
        int == IF Repr(ty) # << >> /\ i \in known
               THEN fields @@ [IntType |-> Repr(ty)[1],
                               INTEGER_VALUE |-> <<ProvidedIntegerValue(ty, i)>>]
               ELSE fields
    IN  ImplOf("VariantDescriptor", i, int)

\* The provided descriptor of the i-th reflectable member of ty.
MemberImpl(ty, scope, i, known) ==
    LET m == Reflectable(ty, scope)[i + 1]
    IN  CASE MemberKind(ty) = "field" ->
                ImplOf("FieldDescriptor", i,
                       [OwnerType |-> ty, Type |-> "stated", NAME |-> m.name,
                        BYTE_OFFSET |-> m.offset])
          [] MemberKind(ty) = "variant" -> VariantImpl(ty, i, known)
          [] MemberKind(ty) = "parameter" ->
                ImplOf("ParameterDescriptor", i,
                       [OwnerType |-> ty, Type |-> "stated", NAME |-> m.name])

\* The provided descriptor of ty itself.
AdtImpl(ty, scope) ==
    CASE MemberKind(ty) = "field" ->
            ImplOf("StructDescriptor", 0,
                   [ID |-> "Struct", NAME |-> ty, Type |-> ty,
                    FIELD_COUNT |-> ProvidedCount(ty, scope)])
      [] MemberKind(ty) = "variant" ->
            ImplOf("EnumDescriptor", 0,
                   [ID |-> "Enum", NAME |-> ty, Type |-> ty,
                    VARIANT_COUNT |-> ProvidedCount(ty, scope)])
      [] MemberKind(ty) = "parameter" ->
            ImplOf("FunctionDescriptor", 0,
                   [ID |-> "Function", NAME |-> ty, ReturnType |-> "()",
                    PARAMETER_COUNT |-> ProvidedCount(ty, scope)])

\* introwospect<ty>, used from scope: the descriptor of ty and the
\* descriptors of its reflectable members, one per position.
introwospect(ty, scope, known) ==
    [adt |-> AdtImpl(ty, scope),
     members |-> {MemberImpl(ty, scope, i, known) :
                     i \in 0 .. (Len(Reflectable(ty, scope)) - 1)}]
NoDescriptors == [adt |-> NoImpl, members |-> {}]

\* The count item of a descriptor of ty.
CountItem(ty) ==
    CASE MemberKind(ty) = "field" -> "FIELD_COUNT"
      [] MemberKind(ty) = "variant" -> "VARIANT_COUNT"
      [] MemberKind(ty) = "parameter" -> "PARAMETER_COUNT"

\* introwospect_over visiting the members from the last to the first.
NextIndex_descending(log, n) == n - 1 - Len(log)

\* The index introwospect_over visits next, after those of log, of n.
NextIndex(log, n) == Len(log)

(***************************************************************************)
(* Readers of descriptors.  The items of a descriptor are associated       *)
(* constants and types: a use of one, `<Info as Trait>::ITEM`, is a read   *)
(* of its value, from any thread, with no lock.                            *)
(***************************************************************************)
\* The number of concurrent readers.
NReaders == 2
Readers == 1 .. NReaders
NoSeen == [trait |-> "none", param |-> 0 - 1, vals |-> << >>]

\* The descriptors provided for a declaration: its own and its members'.
Descriptors(descs) == {descs.adt} \cup descs.members

\* A read that moves the value out of the descriptor (like Option::take),
\* leaving the trait's default where there is one.
ReadItems_taking(descs, d) ==
    LET taken == [d EXCEPT !.items = [i \in DOMAIN d.items |->
                                        IF i \in Defaulted(d.trait) THEN << >>
                                        ELSE d.items[i]]]
    IN  [vals |-> ItemValues(d),
         descs |-> [adt |-> IF descs.adt = d THEN taken ELSE descs.adt,
                    members |-> {IF m = d THEN taken ELSE m : m \in descs.members}]]

\* The uses `<Info as Trait>::ITEM` of every item of the descriptor d: the
\* values read, and the descriptors after the reads.
ReadItems(descs, d) == [vals |-> ItemValues(d), descs |-> descs]

(***************************************************************************)
(* Auxiliary-crate test directives.  A string is a sequence of characters. *)
(***************************************************************************)
\* The largest number of directive lines of a test.
MaxLines == 3
\* str::starts_with
starts_with(s, pre) == Len(s) >= Len(pre) /\ SubSeq(s, 1, Len(pre)) = pre
\* str::trim_start, str::trim_end, str::trim; the space is the only white
\* space of the lines considered.
RECURSIVE trim_start(_)
trim_start(s) == IF s # << >> /\ Head(s) = " " THEN trim_start(Tail(s)) ELSE s
RECURSIVE trim_end(_)
trim_end(s) ==
    IF s # << >> /\ s[Len(s)] = " " THEN trim_end(SubSeq(s, 1, Len(s) - 1)) ELSE s
trim(s) == trim_end(trim_start(s))
\* The positions of ch in s.
Positions(s, ch) == {i \in 1 .. Len(s) : s[i] = ch}
\* s.splitn(2, ch): s whole if ch is not in it, else the part before and the
\* part after the first ch.
splitn2(s, ch) ==
    IF Positions(s, ch) = {} THEN <<s>>
    ELSE LET i == CHOOSE k \in Positions(s, ch) : \A m \in Positions(s, ch) : k <= m
         IN <<SubSeq(s, 1, i - 1), SubSeq(s, i + 1, Len(s))>>
\* s split at the last ch.
rsplitn2(s, ch) ==
    IF Positions(s, ch) = {} THEN <<s>>
    ELSE LET i == CHOOSE k \in Positions(s, ch) : \A m \in Positions(s, ch) : k >= m
         IN <<SubSeq(s, 1, i - 1), SubSeq(s, i + 1, Len(s))>>

\* The directive names.
AUX_BUILD == <<"a", "u", "x", "-", "b", "u", "i", "l", "d">>
AUX_BIN == <<"a", "u", "x", "-", "b", "i", "n">>
AUX_CRATE == <<"a", "u", "x", "-", "c", "r", "a", "t", "e">>
AUX_CODEGEN_BACKEND ==
    <<"a", "u", "x", "-", "c", "o", "d", "e", "g", "e", "n", "-",
      "b", "a", "c", "k", "e", "n", "d">>
\* Option<String>
NoString == [some |-> FALSE, ref |-> << >>]
SomeString(s) == [some |-> TRUE, ref |-> s]
\* AuxProps::default()
AuxProps == [builds |-> << >>, bins |-> << >>, crates |-> << >>,
             codegen_backend |-> NoString]

\* Config::parse_name_value_directive: the text after `directive:` if the
\* line starts with it.
parse_name_value_directive(ln, directive) ==
    IF starts_with(ln, directive \o <<":">>)
    THEN SomeString(SubSeq(ln, Len(directive) + 2, Len(ln)))
    ELSE NoString
\* Config::push_name_value_directive(line, directive, values, mk): pushes
\* mk(value) to values if the line has the directive.  made is what mk
\* returns for the value; mk may panic, and then nothing is pushed.
push_name_value_directive(ln, directive, values, made) ==
    IF ~parse_name_value_directive(ln, directive).some
    THEN [panicked |-> FALSE, values |-> values]
    ELSE IF made.kind = "panic" THEN [panicked |-> TRUE, values |-> values]
    ELSE [panicked |-> FALSE, values |-> Append(values, made.val)]
\* The string handed to mk.
DirectiveValue(ln, directive) == parse_name_value_directive(ln, directive).ref

\* |r| r.trim().to_string()
Trimmed(r) == Ret(trim(r))
\* parse_aux_crate splitting at the last '='.
parse_aux_crate_rsplit(r) ==
    LET parts == rsplitn2(trim(r), "=")
    IN IF Len(parts) < 2 THEN Panic ELSE Ret(<<parts[1], parts[2]>>)
\* parse_aux_crate: the first `expect` cannot fail (splitn yields at least
\* one part), the second panics when there is no '='.
parse_aux_crate(r) ==
    LET parts == splitn2(trim(r), "=")
    IN IF Len(parts) < 2 THEN Panic ELSE Ret(<<parts[1], parts[2]>>)

\* parse_and_update_aux(config, ln, aux): the AuxProps afterwards, and
\* whether the call panicked on the way.
parse_and_update_aux(ln, a) ==
    IF ~starts_with(ln, <<"a", "u", "x", "-">>) THEN [panicked |-> FALSE, aux |-> a]
    ELSE
        LET builds == push_name_value_directive(ln, AUX_BUILD, a.builds,
                                                Trimmed(DirectiveValue(ln, AUX_BUILD)))
            bins == push_name_value_directive(ln, AUX_BIN, a.bins,
                                              Trimmed(DirectiveValue(ln, AUX_BIN)))
            crates == push_name_value_directive(ln, AUX_CRATE, a.crates,
                                                parse_aux_crate(DirectiveValue(ln, AUX_CRATE)))
            backend == parse_name_value_directive(ln, AUX_CODEGEN_BACKEND)
            pushed == [a EXCEPT !.builds = builds.values, !.bins = bins.values]
        IN IF crates.panicked THEN [panicked |-> TRUE, aux |-> pushed]
           ELSE [panicked |-> FALSE,
                 aux |-> [pushed EXCEPT
                            !.crates = crates.values,
                            !.codegen_backend =
                                IF backend.some THEN SomeString(trim(backend.ref))
                                ELSE @]]

\* The directive lines considered: each directive with a value (bare, padded
\* with spaces, with two '='), without a colon and as the prefix of a longer
\* name; and lines that are no aux directive.
DirectiveTails ==
    {<<":", "a">>, <<":", " ", "b", " ">>, <<":", " ", "n", "=", "p", "=", "q", " ">>,
     << >>, <<"x", ":", "a">>}
Lines ==
    {d \o t : d \in {AUX_BUILD, AUX_BIN, AUX_CRATE, AUX_CODEGEN_BACKEND}, t \in DirectiveTails}
    \cup {<<"e", "d", "i", "t", "i", "o", "n", ":", "a">>,
          <<" ">> \o AUX_BUILD \o <<":", "a">>,
          <<"a", "u", "x", "-", ":", "a">>}

(***************************************************************************)
(* State.  A run makes one pointer-producing call on p (stage 1, giving    *)
(* q) and then calls on q that return a number or a boolean (stage 2); or  *)
(* it reads the fields of an instance of a reflected type; or it          *)
(* implements a descriptor trait; or it calls a visitor; or it reflects    *)
(* over a declaration and traverses its members.                            *)
(***************************************************************************)
VARIABLES
    mode,   \* "rt": run time, "ctfe": const evaluation
    target, \* "flat": pointers are addresses, "cheri": pointers are capabilities
    p,      \* the pointer the run starts from
    op1,    \* the pointer-producing call made on p ("none": not yet)
    a1,     \* its integer argument (a count, an address, an alignment)
    q,      \* its result (p itself before the call)
    op2,    \* the last call made on q that returns a number ("none": not yet)
    r,      \* the other pointer of a call that takes two
    ret,    \* the outcome of op2
    geq,    \* the outcome of q.guaranteed_eq(r)
    gne,    \* the outcome of q.guaranteed_ne(r)
    owner,  \* the instance reflected over: its type, its field values, its place
    mem,    \* the memory, byte by byte
    fidx,   \* the index of the field descriptor last used (-1: none yet)
    fref,   \* the reference get_field returned
    fval,   \* the value read through it
    fmut,   \* the write made through get_field_mut (NoWrite: none yet)
    dimpl,  \* the descriptor implementation written (NoImpl: none yet)
    dacc,   \* whether the compiler accepts it
    dvals,  \* the associated types and constants it then has
    vis,    \* the visitor (NoVisitor: none)
    vprev,  \* the visitor before the last call on it
    vcall,  \* the last call on it (NoCall: none yet)
    vout,   \* the output of that call
    rty,    \* the declaration reflected over ("none": none)
    rscope, \* the scope it is reflected from
    rknown, \* the variants whose integer value is known
    rinst,  \* the variant an instance of it holds (-1: no instance)
    rdescs, \* the descriptors provided for it (NoDescriptors: not yet)
    rpc,    \* "idle", "reflected", "visiting", "done"
    vlog,   \* the indices introwospect_over has visited, in order
    seen,   \* per reader, the descriptor constants it read last
    aux,    \* the AuxProps of the test whose directive lines are parsed
    fed,    \* the lines parse_and_update_aux was applied to, in order
    was     \* the AuxProps before the last line

ptrVars == <<p, op1, a1, q, op2, r, ret, geq, gne>>
fieldVars == <<owner, mem, fidx, fref, fval, fmut>>
descVars == <<dimpl, dacc, dvals>>
visitVars == <<vis, vprev, vcall, vout>>
provVars == <<rty, rscope, rknown, rinst, rdescs, rpc, vlog, seen>>
reflectVars == <<descVars, visitVars, provVars>>
auxVars == <<aux, fed, was>>
vars == <<mode, target, ptrVars, fieldVars, reflectVars, auxVars>>

BoolRet(b) == Ret(IF b THEN 1 ELSE 0)
AnyPtrs == UNION {AllPtrs(sz) : sz \in ElemSizes}
NoOwner == [ty |-> "none", vals |-> << >>, place |-> null(0)]

\* No pointer call made yet: ptr and other are the pointers to call on.
FreshPtr(ptr, other) ==
    /\ p = ptr
    /\ op1 = "none"
    /\ a1 = 0
    /\ q = ptr
    /\ op2 = "none"
    /\ r = other
    /\ ret = NoOutcome
    /\ geq = NoOutcome
    /\ gne = NoOutcome

\* No directive line parsed yet.
FreshAux == aux = AuxProps /\ fed = << >> /\ was = AuxProps

NoWrite == [idx |-> 0 - 1, ref |-> null(0), val |-> << >>, before |-> << >>]
\* No field read or written yet: memory holds the instance own.
FreshField(own) ==
    /\ owner = own
    /\ mem = IF own = NoOwner THEN [a \in Usize |-> 0]
             ELSE Store(own.ty, own.vals, own.place)
    /\ fidx = 0 - 1
    /\ fref = null(0)
    /\ fval = << >>
    /\ fmut = NoWrite

\* No descriptor implemented yet.
FreshDescriptor ==
    /\ dimpl = NoImpl
    /\ dacc = FALSE
    /\ dvals = << >>
\* No call made yet on the visitor v.
FreshVisitor(v) ==
    /\ vis = v
    /\ vprev = v
    /\ vcall = NoCall
    /\ vout = << >>
\* Nothing provided yet for the declaration ty, reflected from scope.
FreshProvider(ty, scope, known, held) ==
    /\ rty = ty
    /\ rscope = scope
    /\ rknown = known
    /\ rinst = held
    /\ rdescs = NoDescriptors
    /\ rpc = "idle"
    /\ vlog = << >>
    /\ seen = [rd \in Readers |-> NoSeen]
NoProvider == FreshProvider("none", "inside", {}, 0 - 1)
FreshReflect == FreshDescriptor /\ FreshVisitor(NoVisitor) /\ NoProvider

(***************************************************************************)
(* Stage 1: offset, the wrapping_* family, with_addr.                      *)
(***************************************************************************)
Stage1(name, arg, out) ==
    /\ op1' = name
    /\ a1' = arg
    /\ q' = out
    /\ UNCHANGED <<mode, target, auxVars, p, op2, r, ret, geq, gne, fieldVars, reflectVars>>

Offset ==
    /\ op1 = "none" /\ op2 = "none"
    /\ \E count \in Isize : \E out \in offset(p, count) : Stage1("offset", count, out)

WrappingOffset ==
    /\ op1 = "none" /\ op2 = "none"
    /\ \E count \in Isize : Stage1("wrapping_offset", count, wrapping_offset(p, count))

WrappingAdd ==
    /\ op1 = "none" /\ op2 = "none"
    /\ \E count \in Usize : Stage1("wrapping_add", count, wrapping_add(p, count))

WrappingSub ==
    /\ op1 = "none" /\ op2 = "none"
    /\ \E count \in Usize : Stage1("wrapping_sub", count, wrapping_sub(p, count))

WithAddr ==
    /\ op1 = "none" /\ op2 = "none"
    /\ \E a \in Usize : Stage1("with_addr", a, with_addr(p, a))

(***************************************************************************)
(* There and back: the wrapping call undone with the same count.           *)
(***************************************************************************)
Back(name, out) ==
    /\ op2 = "none"
    /\ op2' = name
    /\ r' = out
    /\ UNCHANGED <<mode, target, auxVars, p, op1, a1, q, ret, geq, gne, fieldVars, reflectVars>>

\* x.wrapping_add(o).wrapping_sub(o)
WrappingSubBack ==
    /\ op1 = "wrapping_add"
    /\ Back("wrapping_sub", wrapping_sub(q, a1))

\* x.wrapping_offset(d).wrapping_offset(d.wrapping_neg())
WrappingOffsetBack ==
    /\ op1 = "wrapping_offset"
    /\ Back("wrapping_offset", wrapping_offset(q, isize_wrapping_neg(a1)))

(***************************************************************************)
(* Stage 2: offset_from, align_offset, guaranteed_eq, guaranteed_ne.       *)
(***************************************************************************)
\* The pointers in bounds of an allocated object other than ptr's that have
\* ptr's address.
Aliases(ptr) ==
    {y \in AllPtrs(ptr.sz) : InBounds(y) /\ y.prov # ptr.prov /\ y.addr = ptr.addr}

\* q.offset_from(origin), origin being the pointer q was computed from or a
\* pointer of another object with q's address.
OffsetFrom ==
    /\ op2 = "none"
    /\ \E origin \in {p} \cup Aliases(q) : \E out \in offset_from(q, origin) :
          /\ op2' = "offset_from"
          /\ r' = origin
          /\ ret' = out
    /\ UNCHANGED <<mode, target, auxVars, p, op1, a1, q, geq, gne, fieldVars, reflectVars>>

AlignOffset ==
    /\ op2 = "none"
    /\ \E align \in Usize : \E out \in align_offset(mode, q, align) :
          /\ op2' = "align_offset"
          /\ a1' = align
          /\ ret' = out
    /\ UNCHANGED <<mode, target, auxVars, p, op1, q, r, geq, gne, fieldVars, reflectVars>>

GuaranteedEq ==
    /\ geq = NoOutcome
    /\ \E out \in guaranteed_eq(mode, q, r) : geq' = BoolRet(out)
    /\ UNCHANGED <<mode, target, auxVars, p, op1, a1, q, op2, r, ret, gne, fieldVars, reflectVars>>

GuaranteedNe ==
    /\ gne = NoOutcome
    /\ \E out \in guaranteed_ne(mode, q, r) : gne' = BoolRet(out)
    /\ UNCHANGED <<mode, target, auxVars, p, op1, a1, q, op2, r, ret, geq, fieldVars, reflectVars>>

(***************************************************************************)
(* Null checks: is_null, as_ref, as_uninit_ref, as_uninit_slice on q.       *)
(***************************************************************************)
Checked(name, out) ==
    /\ op2 = "none"
    /\ op2' = name
    /\ ret' = out
    /\ UNCHANGED <<mode, target, auxVars, p, op1, a1, q, r, geq, gne, fieldVars, reflectVars>>

\* q.is_null()
IsNull ==
    \E n \in is_null(mode, q) : Checked("is_null", BoolRet(n))

\* q.as_ref()
AsRef ==
    \E o \in as_ref(mode, q) : Checked("as_ref", Ret(o))

\* q.as_uninit_ref(), T: Sized
AsUninitRef ==
    /\ ~IsWide(q)
    /\ \E o \in as_uninit_ref(mode, q) : Checked("as_uninit_ref", Ret(o))

\* q.as_uninit_slice(), q a raw slice
AsUninitSlice ==
    /\ IsWide(q)
    /\ \E o \in as_uninit_slice(mode, q) : Checked("as_uninit_slice", Ret(o))

(***************************************************************************)
(* Comparisons of q with r: eq, cmp, partial_cmp, lt, le, gt, ge.           *)
(***************************************************************************)
Eq == Checked("eq", BoolRet(eq(q, r)))
Cmp == Checked("cmp", Ret(cmp(q, r)))
PartialCmp == Checked("partial_cmp", Ret(partial_cmp(q, r)))
Lt == Checked("lt", BoolRet(lt(q, r)))
Le == Checked("le", BoolRet(le(q, r)))
Gt == Checked("gt", BoolRet(gt(q, r)))
Ge == Checked("ge", BoolRet(ge(q, r)))

(***************************************************************************)
(* Directive lines: parse_and_update_aux on the next line of the test.      *)
(***************************************************************************)
ParseAndUpdateAux ==
    /\ Len(fed) < MaxLines
    /\ ret # Panic
    /\ \E ln \in Lines :
          LET done == parse_and_update_aux(ln, aux)
          IN /\ aux' = done.aux
             /\ was' = aux
             /\ fed' = Append(fed, ln)
             /\ op2' = "parse_and_update_aux"
             /\ ret' = IF done.panicked THEN Panic ELSE Ret(0)
    /\ UNCHANGED <<mode, target, p, op1, a1, q, r, geq, gne, fieldVars, reflectVars>>

(***************************************************************************)
(* Field access.                                                           *)
(***************************************************************************)
\* get_field::<FieldDescriptor(owner.ty, i), i>(&owner), and a read through
\* the reference it returns.
GetField ==
    /\ fidx = 0 - 1
    /\ \E i \in 0 .. (FIELD_COUNT(owner.ty) - 1) :
       \E ref \in get_field(mode, FieldDescriptor(owner.ty, i), owner.place) :
          /\ fidx' = i
          /\ fref' = ref
          /\ fval' = ReadRef(mem, ref)
    /\ UNCHANGED <<mode, target, auxVars, ptrVars, owner, mem, fmut, reflectVars>>

\* *get_field_mut::<FieldDescriptor(owner.ty, i), i>(&mut owner) = w: the
\* field of the instance becomes w, by a write through the reference the
\* call returns.  `&mut owner` cannot be taken while the shared reference
\* get_field returned is alive: the write comes before the read.
GetFieldMut ==
    /\ fmut = NoWrite
    /\ fidx = 0 - 1
    /\ \E i \in 0 .. (FIELD_COUNT(owner.ty) - 1) :
       \E ref \in get_field_mut(mode, FieldDescriptor(owner.ty, i), owner.place) :
       \E w \in Values(FieldDescriptor(owner.ty, i).TypeSize) :
          /\ fmut' = [idx |-> i, ref |-> ref, val |-> w, before |-> mem]
          /\ mem' = WriteRef(mem, ref, w)
          /\ owner' = [owner EXCEPT !.vals[i + 1] = w]
    /\ UNCHANGED <<mode, target, auxVars, ptrVars, fidx, fref, fval, reflectVars>>

(***************************************************************************)
(* Implementing a descriptor trait.                                        *)
(***************************************************************************)
\* `impl Trait<param> for T { ... }`: the compiler checks that the items
\* without a default are stated and fills in the defaults of the others.
ImplementDescriptor ==
    /\ dimpl = NoImpl
    /\ \E t \in Traits :
       \E n \in (IF t \in Indexed THEN 0 .. MaxIndex ELSE {0}) :
       \E m \in {"none"} \cup Required(t) :
       \E s \in SUBSET Defaulted(t) :
       \E alt \in 1 .. 2 :
          LET impl == Impl(t, n, m, s, alt)
          IN  /\ dimpl' = impl
              /\ dacc' = Accepted(impl)
              /\ dvals' = IF Accepted(impl) THEN ItemValues(impl) ELSE << >>
    /\ UNCHANGED <<mode, target, auxVars, ptrVars, fieldVars, visitVars, provVars>>

(***************************************************************************)
(* Calling a visitor.                                                      *)
(***************************************************************************)
Called(kind, ty, idx, mut, res) ==
    /\ vprev' = vis
    /\ vcall' = [kind |-> kind, ty |-> ty, idx |-> idx, mut |-> mut]
    /\ vout' = res.out
    /\ vis' = res.vis
    /\ UNCHANGED <<mode, target, auxVars, ptrVars, fieldVars, descVars, provVars>>

\* vis.visit_<kind>::<ty, idx>()
Visit ==
    /\ vcall = NoCall
    /\ \E kind \in Kinds : \E ty \in DescriptorTypes :
       \E idx \in (IF kind \in IndexedKinds THEN 0 .. MaxIndex ELSE {0}) :
          Called(kind, ty, idx, FALSE, CallVisit(kind, vis, ty, idx))

\* vis.visit_<kind>_mut::<ty, idx>()
VisitMut ==
    /\ vcall = NoCall
    /\ \E kind \in Kinds : \E ty \in DescriptorTypes :
       \E idx \in (IF kind \in IndexedKinds THEN 0 .. MaxIndex ELSE {0}) :
          Called(kind, ty, idx, TRUE, CallVisitMut(kind, vis, ty, idx))

(***************************************************************************)
(* Reflecting over a declaration.                                          *)
(***************************************************************************)
\* type Info = introwospect<rty>;
Introwospect ==
    /\ rpc = "idle"
    /\ rdescs' = introwospect(rty, rscope, rknown)
    /\ rpc' = "reflected"
    /\ UNCHANGED <<mode, target, auxVars, ptrVars, fieldVars, descVars, visitVars,
                   rty, rscope, rknown, rinst, vlog, seen>>

\* One step of introwospect_over(rty, vis): the visit of the next member.
IntrowospectOverStep ==
    /\ rpc \in {"reflected", "visiting"}
    /\ Len(vlog) < ItemValue(rdescs.adt, CountItem(rty))
    /\ LET idx == NextIndex(vlog, ItemValue(rdescs.adt, CountItem(rty)))
           res == CallVisit(MemberKind(rty), vis, rty, idx)
       IN  /\ vlog' = Append(vlog, idx)
           /\ vprev' = vis
           /\ vcall' = [kind |-> MemberKind(rty), ty |-> rty, idx |-> idx, mut |-> FALSE]
           /\ vout' = res.out
           /\ vis' = res.vis
    /\ rpc' = "visiting"
    /\ UNCHANGED <<mode, target, auxVars, ptrVars, fieldVars, descVars,
                   rty, rscope, rknown, rinst, rdescs, seen>>

\* introwospect_over returns once every member has been visited.
IntrowospectOverReturn ==
    /\ rpc \in {"reflected", "visiting"}
    /\ Len(vlog) = ItemValue(rdescs.adt, CountItem(rty))
    /\ rpc' = "done"
    /\ UNCHANGED <<mode, target, auxVars, ptrVars, fieldVars, descVars, visitVars,
                   rty, rscope, rknown, rinst, rdescs, vlog, seen>>

(***************************************************************************)
(* Concurrent readers.                                                     *)
(***************************************************************************)
\* Reader rd reads the constants of one of the provided descriptors.
ReadConstants(rd) ==
    /\ rpc # "idle"
    /\ \E d \in Descriptors(rdescs) :
          /\ seen' = [seen EXCEPT ![rd] = [trait |-> d.trait, param |-> d.param,
                                           vals |-> ReadItems(rdescs, d).vals]]
          /\ rdescs' = ReadItems(rdescs, d).descs
    /\ UNCHANGED <<mode, target, auxVars, ptrVars, fieldVars, descVars, visitVars,
                   rty, rscope, rknown, rinst, rpc, vlog>>

\* A visitor is called, once, on a member descriptor of the reflected
\* declaration: vis.visit_<kind>::<Info, idx>() or its _mut form.
VisitMember ==
    /\ rpc # "idle"
    /\ vcall = NoCall
    /\ \E idx \in 0 .. (ItemValue(rdescs.adt, CountItem(rty)) - 1) :
          \/ Called(MemberKind(rty), rty, idx, FALSE,
                    CallVisit(MemberKind(rty), vis, rty, idx))
          \/ Called(MemberKind(rty), rty, idx, TRUE,
                    CallVisitMut(MemberKind(rty), vis, rty, idx))

(***************************************************************************)
(* Specifications.                                                         *)
(***************************************************************************)
\* Pointer arithmetic: a call of offset, wrapping_offset, wrapping_add,
\* wrapping_sub or with_addr on any pointer, then the distance from the
\* result back to the start.
Init ==
    /\ mode = "rt"
    /\ target = "flat"
    /\ FreshAux
    /\ \E ptr \in AnyPtrs : FreshPtr(ptr, ptr)
    /\ FreshField(NoOwner)
    /\ FreshReflect
Next == Offset \/ WrappingOffset \/ WrappingAdd \/ WrappingSub \/ WithAddr \/ OffsetFrom
Spec == Init /\ [][Next]_vars

\* There and back: any pointer moved by a wrapping call, then moved back by
\* the same count, on either target.
InitRound ==
    /\ mode = "rt"
    /\ target \in Targets
    /\ FreshAux
    /\ \E ptr \in AnyPtrs : FreshPtr(ptr, ptr)
    /\ FreshField(NoOwner)
    /\ FreshReflect
NextRound == WrappingAdd \/ WrappingOffset \/ WrappingSubBack \/ WrappingOffsetBack
SpecRound == InitRound /\ [][NextRound]_vars

\* Null checks: any thin pointer or raw slice, in both modes, with an
\* instance in memory that some of them point into.
InitNull ==
    /\ mode \in Modes
    /\ target = "flat"
    /\ FreshAux
    /\ \E ptr \in AnyPtrs \cup UNION {WidePtrs(sz) : sz \in ElemSizes} :
          FreshPtr(ptr, ptr)
    /\ FreshField([ty |-> "Padded", vals |-> << <<1>>, <<1, 1>> >>,
                   place |-> Ptr(1, AllocBase[1], size_of("Padded"))])
    /\ FreshReflect
NextNull == IsNull \/ AsRef \/ AsUninitRef \/ AsUninitSlice
SpecNull == InitNull /\ [][NextNull]_vars

\* Ordering: any two thin pointers, or any two raw slices whose data pointers
\* are null or in bounds of an object, at run time.
SlicePtrs ==
    {slice_from_raw_parts(d, n) :
        d \in {null(1)} \cup {x \in AllPtrs(1) : InBounds(x)}, n \in 0 .. MaxLen}
InitOrd ==
    /\ mode = "rt"
    /\ target = "flat"
    /\ FreshAux
    /\ \E ptr, other \in AllPtrs(1) \cup SlicePtrs :
          /\ IsWide(ptr) <=> IsWide(other)
          /\ p = ptr /\ op1 = "none" /\ a1 = 0 /\ q = ptr /\ op2 = "none" /\ r = other
          /\ ret = NoOutcome /\ geq = NoOutcome /\ gne = NoOutcome
    /\ FreshField(NoOwner)
    /\ FreshReflect
NextOrd == Eq \/ Cmp \/ PartialCmp \/ Lt \/ Le \/ Gt \/ Ge
SpecOrd == InitOrd /\ [][NextOrd]_vars

\* Directives: the lines of a test, parsed one after the other into an
\* AuxProps that starts out as the default.
InitAux ==
    /\ mode = "rt"
    /\ target = "flat"
    /\ FreshAux
    /\ FreshPtr(null(0), null(0))
    /\ FreshField(NoOwner)
    /\ FreshReflect
NextAux == ParseAndUpdateAux
SpecAux == InitAux /\ [][NextAux]_vars

\* Distance: offset_from on any two pointers of one type, in both modes.
InitDist ==
    /\ mode \in Modes
    /\ target = "flat"
    /\ FreshAux
    /\ \E sz \in ElemSizes : \E origin \in AllPtrs(sz) : \E ptr \in AllPtrs(sz) :
          /\ p = origin /\ q = ptr /\ r = origin
          /\ op1 = "none" /\ a1 = 0 /\ op2 = "none"
          /\ ret = NoOutcome /\ geq = NoOutcome /\ gne = NoOutcome
    /\ FreshField(NoOwner)
    /\ FreshReflect
NextDist == OffsetFrom
SpecDist == InitDist /\ [][NextDist]_vars

\* Comparison: guaranteed_eq and guaranteed_ne on any two pointers of one
\* type, in both modes.
InitCmp ==
    /\ mode \in Modes
    /\ target = "flat"
    /\ FreshAux
    /\ \E sz \in ElemSizes : \E ptr \in AllPtrs(sz) : \E other \in AllPtrs(sz) :
          FreshPtr(ptr, other)
    /\ FreshField(NoOwner)
    /\ FreshReflect
NextCmp == GuaranteedEq \/ GuaranteedNe
SpecCmp == InitCmp /\ [][NextCmp]_vars

\* Alignment: align_offset on any pointer with any usize, in both modes.
InitAlign ==
    /\ mode \in Modes
    /\ target = "flat"
    /\ FreshAux
    /\ \E ptr \in AnyPtrs : FreshPtr(ptr, ptr)
    /\ FreshField(NoOwner)
    /\ FreshReflect
NextAlign == AlignOffset
SpecAlign == InitAlign /\ [][NextAlign]_vars

\* Field access: a write through get_field_mut or none, then get_field, on
\* any instance of a reflected type, anywhere it can live, in both modes.
InitField ==
    /\ mode \in Modes
    /\ target = "flat"
    /\ FreshAux
    /\ FreshPtr(null(0), null(0))
    /\ \E ty \in StructTypes : \E vals \in Instances(ty) : \E pl \in Places(ty) :
          FreshField([ty |-> ty, vals |-> vals, place |-> pl])
    /\ FreshReflect
NextField == GetField \/ GetFieldMut
SpecField == InitField /\ [][NextField]_vars

\* Descriptors: any implementation of a descriptor trait.
InitDesc ==
    /\ mode = "ctfe"
    /\ target = "flat"
    /\ FreshAux
    /\ FreshPtr(null(0), null(0))
    /\ FreshField(NoOwner)
    /\ FreshReflect
NextDesc == ImplementDescriptor
SpecDesc == InitDesc /\ [][NextDesc]_vars

\* Visiting: one call of visit_<kind> or visit_<kind>_mut on any visitor.
InitVisit ==
    /\ mode = "rt"
    /\ target = "flat"
    /\ FreshAux
    /\ FreshPtr(null(0), null(0))
    /\ FreshField(NoOwner)
    /\ FreshDescriptor
    /\ \E v \in Visitors : FreshVisitor(v)
    /\ NoProvider
NextVisit == Visit \/ VisitMut
SpecVisit == InitVisit /\ [][NextVisit]_vars

\* Reflection: introwospect on any declaration, from either scope, then
\* introwospect_over with any visitor; for an enum, an instance holding any
\* of its variants.
InitReflect ==
    /\ mode = "ctfe"
    /\ target = "flat"
    /\ FreshAux
    /\ FreshPtr(null(0), null(0))
    /\ FreshField(NoOwner)
    /\ FreshDescriptor
    /\ \E v \in Visitors : FreshVisitor(v)
    /\ \E ty \in ReflectTypes : \E scope \in Scopes :
       \E known \in (IF Repr(ty) # << >>
                     THEN SUBSET (0 .. (Len(MemberDecls(ty)) - 1)) ELSE {{}}) :
       \E held \in (IF ty \in EnumTypes
                    THEN 0 .. (Len(MemberDecls(ty)) - 1) ELSE {0 - 1}) :
          FreshProvider(ty, scope, known, held)
NextReflect == Introwospect \/ IntrowospectOverStep \/ IntrowospectOverReturn
SpecReflect == InitReflect /\ [][NextReflect]_vars

\* Sharing: the descriptors of a struct are established (introwospect),
\* then NReaders readers read their constants, again and again, while a
\* visitor is called, a field of an instance is written through
\* get_field_mut and read through get_field, and pointers to the instance
\* are compared, in any interleaving.
InitShare ==
    /\ mode = "rt"
    /\ target = "flat"
    /\ FreshAux
    /\ \E ty \in StructTypes : \E pl \in Places(ty) :
          /\ pl.prov = 1 /\ pl.addr = AllocBase[1]
          /\ FreshPtr(pl, pl)
          /\ FreshField([ty |-> ty,
                         vals |-> [i \in 1 .. FIELD_COUNT(ty) |->
                                     [k \in 1 .. StructLayout(ty)[i].size |-> 0]],
                         place |-> pl])
          /\ FreshProvider(ty, "outside", {}, 0 - 1)
    /\ FreshDescriptor
    /\ FreshVisitor([state |-> 0, interior |-> TRUE, overrides |-> FALSE])
NextShare ==
    \/ Introwospect
    \/ \E rd \in Readers : ReadConstants(rd)
    \/ VisitMember
    \/ GetField
    \/ GetFieldMut
    \/ GuaranteedEq
SpecShare == InitShare /\ [][NextShare]_vars

(***************************************************************************)
(* Properties.                                                             *)
(***************************************************************************)
\* p.offset(n) stays in bounds (or one past the end) of the object p points
\* into.
StaysInBounds(ptr, n) ==
    /\ InBounds(ptr)
    /\ AllocBase[ptr.prov] <= ptr.addr + n * ptr.sz
    /\ ptr.addr + n * ptr.sz <= AllocEnd(ptr.prov)

\* C1: offset_from is the exact inverse of offset: for a pointer p into an
\* allocated object, a non-zero element size and a count n such that
\* q = p.offset(n) stays in bounds of that object, q.offset_from(p) = n.
C1_OffsetFromInvertsOffset ==
    (/\ op1 = "offset" /\ StaysInBounds(p, a1) /\ p.sz # 0
     /\ op2 = "offset_from" /\ r = p)
    => ret = Ret(a1)

C1_Witness ==
    /\ op1 = "offset" /\ StaysInBounds(p, a1) /\ p.sz = 2 /\ a1 = 0 - 1
    /\ op2 = "offset_from" /\ r = p /\ ret = Ret(0 - 1)

\* C2: for every field descriptor (its BYTE_OFFSET the field's real offset)
\* and every valid owner instance, get_field returns a reference to the
\* address owner_base + BYTE_OFFSET, and the value read through it is the
\* value of that field of the instance.
C2_GetFieldReadsField ==
    fidx # 0 - 1 =>
        /\ fref = Ptr(owner.place.prov,
                      owner.place.addr + FieldDescriptor(owner.ty, fidx).BYTE_OFFSET,
                      FieldDescriptor(owner.ty, fidx).TypeSize)
        /\ fval = owner.vals[fidx + 1]

C2_Witness ==
    /\ owner.ty = "Padded" /\ fidx = 1 /\ mode = "ctfe"
    /\ fref.addr = owner.place.addr + 2
    /\ fval = <<1, 0>> /\ owner.vals[1] = <<0>>

\* C3: for every pointer p, of any element size, and every address a,
\* p.with_addr(a) has address exactly a and the provenance (and type) of p:
\* it is p moved by (a - p.addr()) bytes modulo 2^w.
C3_WithAddrKeepsProvenance ==
    op1 = "with_addr" =>
        /\ q.addr = a1
        /\ q.prov = p.prov
        /\ q.sz = p.sz
        /\ q.addr = (p.addr + ((a1 - p.addr) % AddrSpace)) % AddrSpace

C3_Witness ==
    /\ op1 = "with_addr" /\ p.sz = 2 /\ p.prov = 1 /\ p.addr = 4
    /\ a1 = 1 /\ q = Ptr(1, 1, 2)

\* y points into an allocated object other than the one x points into, and
\* n = y.addr() - x.addr().
InOtherObject(x, y, n) ==
    /\ InBounds(x)
    /\ Dereferenceable(y)
    /\ y.prov # x.prov
    /\ n = as_isize(y.addr - x.addr)

\* The calls of the wrapping family.
Wrapping == {"wrapping_offset", "wrapping_add", "wrapping_sub"}

\* C4 as stated: a pointer produced by wrapping_offset, wrapping_add or
\* wrapping_sub keeps the provenance of the pointer it was computed from,
\* and z = x.wrapping_offset(y.addr() - x.addr()), x and y in different
\* allocated objects, has the address of y, is attached to x's object, is
\* not y, and cannot be dereferenced.
C4_AsStated ==
    /\ op1 \in Wrapping => q.prov = p.prov
    /\ op1 = "wrapping_offset" =>
          \A y \in AllPtrs(p.sz) :
              InOtherObject(p, y, a1) =>
                  /\ q.addr = y.addr
                  /\ q # y
                  /\ ~Dereferenceable(q)

\* C4, amended: a pointer produced by wrapping_offset, wrapping_add or
\* wrapping_sub keeps the provenance of the pointer it was computed from;
\* for an element size of 1, z = x.wrapping_offset(y.addr() - x.addr()), x
\* and y in different allocated objects, has the address of y, is attached
\* to x's object, is not y, and cannot be dereferenced.
C4_WrappingOffsetKeepsProvenance ==
    /\ op1 \in Wrapping => q.prov = p.prov
    /\ op1 = "wrapping_offset" =>
          \A y \in AllPtrs(p.sz) :
              (p.sz = 1 /\ InOtherObject(p, y, a1)) =>
                  /\ q.addr = y.addr
                  /\ q # y
                  /\ ~Dereferenceable(q)

C4_Witness ==
    /\ op1 = "wrapping_offset" /\ p = Ptr(1, 3, 1) /\ a1 = 4
    /\ InOtherObject(p, Ptr(2, 7, 1), a1)
    /\ q = Ptr(1, 7, 1)

\* C5 as stated: for every pointer p, p.wrapping_offset(0) and p.offset(0)
\* give a pointer with the address and the provenance of p.
C5_AsStated ==
    (op1 \in {"wrapping_offset", "offset"} /\ a1 = 0) => q = p

\* C5, amended: p.wrapping_offset(0) is a no-op for every pointer p, and
\* p.offset(0) is a no-op for every pointer p that is in bounds or one past
\* the end of an allocated object (for any other p, offset is undefined
\* behaviour).
C5_ZeroOffsetIsNoOp ==
    /\ (op1 = "wrapping_offset" /\ a1 = 0) => q = p
    /\ (op1 = "offset" /\ a1 = 0 /\ InBounds(p)) => q = p

C5_Witness ==
    /\ op1 = "offset" /\ a1 = 0 /\ p = Ptr(2, 10, 2) /\ q = p

\* C6 as stated: guaranteed_eq(a, a) is true for every pointer a at run time
\* and under const evaluation, and guaranteed_eq(a, b) is true only if a and
\* b are equal at run time.
C6_AsStated ==
    /\ (geq # NoOutcome /\ q = r) => geq = BoolRet(TRUE)
    /\ geq = BoolRet(TRUE) => ptr_eq(q, r)

\* C6, amended: at run time guaranteed_eq(a, a) is true for every pointer a
\* (under const evaluation it may be a spurious false), and in both modes
\* guaranteed_eq(a, b) is true only if a and b are equal at run time.
C6_GuaranteedEqSound ==
    /\ (geq # NoOutcome /\ q = r /\ mode = "rt") => geq = BoolRet(TRUE)
    /\ geq = BoolRet(TRUE) => ptr_eq(q, r)

C6_Witness ==
    /\ mode = "rt" /\ geq = BoolRet(TRUE) /\ q = r /\ q.prov = 1

\* C7: guaranteed_eq and guaranteed_ne never both return true for a pair of
\* pointers; at run time guaranteed_eq is == and guaranteed_ne is !=.  (That
\* both can return false under const evaluation is the witness.)
C7_EqNeMirrors ==
    /\ ~(geq = BoolRet(TRUE) /\ gne = BoolRet(TRUE))
    /\ (mode = "rt" /\ geq # NoOutcome) => geq = BoolRet(ptr_eq(q, r))
    /\ (mode = "rt" /\ gne # NoOutcome) => gne = BoolRet(~ptr_eq(q, r))

C7_Witness ==
    /\ mode = "ctfe" /\ geq = BoolRet(FALSE) /\ gne = BoolRet(FALSE)

\* A panic under const evaluation stops the compilation: the call is
\* rejected at compile time.
RejectedAtCompileTime(out) == out = Panic /\ mode = "ctfe"

\* C8 as stated: offset_from on a zero-sized element type is rejected at
\* compile time, whatever the two pointers are, and never yields a distance.
C8_AsStated ==
    (op2 = "offset_from" /\ q.sz = 0) => RejectedAtCompileTime(ret)

\* C8, amended: offset_from on a zero-sized element type panics, whatever
\* the two pointers are, and never yields a distance; the panic is a
\* compile-time rejection only when the call is const-evaluated.
C8_OffsetFromPanicsOnZst ==
    (op2 = "offset_from" /\ q.sz = 0) =>
        /\ ret = Panic
        /\ (mode = "ctfe" => RejectedAtCompileTime(ret))

C8_Witness ==
    /\ op2 = "offset_from" /\ q.sz = 0 /\ mode = "rt"
    /\ q.prov = 1 /\ r.prov = 2 /\ ret = Panic

\* C9: align_offset with an alignment that is not a power of two (0
\* included) panics, at run time and under const evaluation alike; it never
\* returns a value.
C9_AlignOffsetPanics ==
    (op2 = "align_offset" /\ ~is_power_of_two(a1)) => ret = Panic

C9_Witness ==
    /\ op2 = "align_offset" /\ mode = "ctfe" /\ a1 = 6 /\ ret = Panic

\* C10: under const evaluation align_offset returns usize::MAX, an ordinary
\* return value, for every pointer and every power-of-two alignment.
C10_AlignOffsetCtfeSentinel ==
    (op2 = "align_offset" /\ mode = "ctfe" /\ is_power_of_two(a1)) =>
        ret = Ret(USIZE_MAX)

C10_Witness ==
    /\ op2 = "align_offset" /\ mode = "ctfe" /\ a1 = 2
    /\ q = Ptr(1, 4, 2) /\ ret = Ret(USIZE_MAX)

\* C11: at run time, for every pointer p and every power-of-two align,
\* align_offset returns usize::MAX or a count k of elements (not bytes) such
\* that the address of p.wrapping_add(k) is a multiple of align.
C11_AlignOffsetAligns ==
    (op2 = "align_offset" /\ mode = "rt" /\ is_power_of_two(a1)) =>
        \/ ret = Ret(USIZE_MAX)
        \/ /\ ret.kind = "ret"
           /\ ret.val \in Usize
           /\ addr(wrapping_add(q, ret.val)) % a1 = 0

C11_Witness ==
    /\ op2 = "align_offset" /\ mode = "rt" /\ a1 = 4
    /\ q = Ptr(1, 2, 2) /\ ret = Ret(1)
    /\ addr(wrapping_add(q, 1)) = 4

\* The required items of the implementation written are all stated.
AllRequiredStated ==
    \A i \in Required(dimpl.trait) : dimpl.items[i] # << >>

C14_CountsDefaultToZero ==
    dimpl # NoImpl =>
        /\ AllRequiredStated => dacc
        /\ dacc =>
              \A i \in Defaulted(dimpl.trait) :
                  dimpl.items[i] = << >> =>
                      /\ i \in CountItems => dvals[i] = 0
                      /\ i = "ATTRIBUTES" => dvals[i] = << >>
                      /\ i \in {"VariantsType", "ParametersType", "FieldsType"}
                            => dvals[i] = "NoType"

C14_Witness ==
    /\ dimpl.trait = "EnumDescriptor" /\ dacc
    /\ dimpl.items["VARIANT_COUNT"] = << >> /\ dvals["VARIANT_COUNT"] = 0
    /\ dimpl.items["VariantsType"] = << >> /\ dvals["VariantsType"] = "NoType"
    /\ dimpl.items["ATTRIBUTES"] = << >> /\ dvals["ATTRIBUTES"] = << >>

\* The last call was the provided (not overridden) visit_<kind>_mut.
ProvidedMutCalled == vcall # NoCall /\ vcall.mut /\ ~vprev.overrides

\* C15: for each of the six visitor kinds, the provided visit_<kind>_mut
\* returns exactly the output visit_<kind> returns for the same visitor,
\* the same descriptor type and (for the indexed kinds) the same index.
C15_MutForwardsOutput ==
    ProvidedMutCalled =>
        vout = CallVisit(vcall.kind, vprev, vcall.ty, vcall.idx).out

C15_Witness ==
    /\ ProvidedMutCalled /\ vcall.kind = "field" /\ vcall.idx = 2
    /\ vcall.ty = "MeowInfo" /\ vprev.state = 1
    /\ vout = <<"field", "MeowInfo", 2, 1>>

\* C16: the provided visit_<kind>_mut introduces no mutation of its own:
\* the visitor after the call is the visitor visit_<kind> leaves, and a
\* visitor whose visit_<kind> changes nothing is unchanged.
C16_MutAddsNoMutation ==
    ProvidedMutCalled =>
        /\ vis = CallVisit(vcall.kind, vprev, vcall.ty, vcall.idx).vis
        /\ ~vprev.interior => vis = vprev

C16_Witness ==
    /\ ProvidedMutCalled /\ vcall.kind = "parameter" /\ vcall.idx = 1
    /\ ~vprev.interior /\ vprev.state = 1 /\ vis = vprev

\* The declaration has been reflected over: its descriptors are provided.
Reflected == rpc # "idle"

\* The indices i for which a descriptor of the i-th member is provided.
ProvidedIndices == {d.param : d \in rdescs.members}

\* C12: the number of field descriptors produced for a struct equals its
\* FIELD_COUNT: FieldDescriptor<i> exists, once, for each i in
\* [0, FIELD_COUNT) and for no i >= FIELD_COUNT.
C12_FieldDescriptorsMatchCount ==
    (Reflected /\ MemberKind(rty) = "field") =>
        LET n == ItemValue(rdescs.adt, "FIELD_COUNT")
        IN  /\ ProvidedIndices = 0 .. (n - 1)
            /\ Cardinality(rdescs.members) = n
            /\ \A d \in rdescs.members :
                  d.trait = "FieldDescriptor" /\ Accepted(d)

C12_Witness ==
    /\ Reflected /\ rty = "Meow" /\ rscope = "outside"
    /\ ItemValue(rdescs.adt, "FIELD_COUNT") = 2
    /\ ProvidedIndices = {0, 1}
    /\ Len(MemberDecls(rty)) = 3

\* The number of members of the reflected declaration: the count its
\* descriptor gives.
MemberCount == ItemValue(rdescs.adt, CountItem(rty))

\* C17: a traversal over the N fields, variants or parameters of a
\* descriptor invokes the visitor once per index in ascending
\* declaration-index order 0, 1, ..., N-1: no index is skipped, repeated or
\* visited before a smaller one.
C17_VisitsAscending ==
    Reflected =>
        /\ Len(vlog) <= MemberCount
        /\ \A k \in 1 .. Len(vlog) : vlog[k] = k - 1
        /\ (vlog # << >> /\ rpc = "visiting") =>
              /\ vcall.kind = MemberKind(rty)
              /\ vcall.idx = Len(vlog) - 1
        /\ rpc = "done" => Len(vlog) = MemberCount

C17_Witness ==
    /\ rpc = "done" /\ rty = "Coded" /\ MemberCount = 3
    /\ vlog = <<0, 1, 2>>
    /\ vcall.kind = "variant" /\ vcall.idx = 2

\* An instance of the reflected enum exists.
EnumReflected == Reflected /\ MemberKind(rty) = "variant" /\ rinst # 0 - 1

\* The variant descriptors whose DISCRIMINANT is the tag of the instance.
TagMatches ==
    {d \in rdescs.members :
        ItemValue(d, "DISCRIMINANT") = discriminant(rty, rinst)}

\* C18: for every enum and every instance of it, exactly one of the enum's
\* variant descriptors (indices 0..VARIANT_COUNT-1) has a DISCRIMINANT equal
\* to the runtime tag of the instance; the discriminants of distinct
\* variants are pairwise different.
C18_OneDiscriminantMatches ==
    EnumReflected =>
        /\ ProvidedIndices = 0 .. (ItemValue(rdescs.adt, "VARIANT_COUNT") - 1)
        /\ Cardinality(TagMatches) = 1
        /\ \A d, e \in rdescs.members :
              d.param # e.param =>
                  ItemValue(d, "DISCRIMINANT") # ItemValue(e, "DISCRIMINANT")

C18_Witness ==
    /\ EnumReflected /\ rty = "Coded" /\ rinst = 2
    /\ ItemValue(rdescs.adt, "VARIANT_COUNT") = 3
    /\ \E d \in rdescs.members :
          TagMatches = {d} /\ d.param = 2 /\ ItemValue(d, "DISCRIMINANT") = 5

\* The variant descriptors whose INTEGER_VALUE is present and is the integer
\* the instance converts to.
IntegerMatches ==
    {d \in rdescs.members :
        ItemValue(d, "INTEGER_VALUE") = <<as_int(rty, rinst)>>}

\* The descriptor of the variant the instance holds gives an INTEGER_VALUE.
HeldValuePresent ==
    \E d \in rdescs.members :
        d.param = rinst /\ ItemValue(d, "INTEGER_VALUE") # << >>

\* C19: for every enum with a fixed integer representation and every
\* instance of it, the only variant whose INTEGER_VALUE can equal the
\* integer the instance converts to is the one the instance holds, and when
\* that INTEGER_VALUE is present exactly one variant's INTEGER_VALUE equals
\* it.
C19_OneIntegerValueMatches ==
    (EnumReflected /\ Repr(rty) # << >>) =>
        /\ \A d \in IntegerMatches : d.param = rinst
        /\ Cardinality(IntegerMatches) <= 1
        /\ HeldValuePresent => Cardinality(IntegerMatches) = 1

C19_Witness ==
    /\ EnumReflected /\ rty = "Coded" /\ rinst = 1 /\ rknown = {0, 1, 2}
    /\ as_int(rty, rinst) = 2
    /\ \E d \in rdescs.members :
          /\ IntegerMatches = {d}
          /\ d.param = 1
          /\ ItemValue(d, "INTEGER_VALUE") = <<2>>
          /\ ItemValue(d, "IntType") = "u8"

\* C20: INTEGER_VALUE of a variant is absent (None, with IntType = NoType)
\* unless the owner enum opted into a fixed integer representation and this
\* variant's value is known; an enum without an explicit representation has
\* INTEGER_VALUE absent on every variant.
C20_IntegerValueAbsentUnlessKnown ==
    (Reflected /\ MemberKind(rty) = "variant") =>
        \A d \in rdescs.members :
            /\ ItemValue(d, "INTEGER_VALUE") # << >> =>
                  Repr(rty) # << >> /\ d.param \in rknown
            /\ ItemValue(d, "INTEGER_VALUE") = << >> =>
                  ItemValue(d, "IntType") = "NoType"
            /\ Repr(rty) = << >> => ItemValue(d, "INTEGER_VALUE") = << >>

C20_Witness ==
    /\ Reflected /\ rty = "Coded" /\ rknown = {0}
    /\ \E d, e \in rdescs.members :
          /\ d.param = 0 /\ ItemValue(d, "INTEGER_VALUE") = <<1>>
          /\ ItemValue(d, "IntType") = "u8"
          /\ e.param = 1 /\ ItemValue(e, "INTEGER_VALUE") = << >>
          /\ ItemValue(e, "IntType") = "NoType"

\* The declaration of the variant a provided variant descriptor describes.
VariantOf(d) == MemberDecls(rty)[d.param + 1]

\* The FieldsType provided for the variants, of any enum, that carry a
\* field list (an empty one included).
ListedFieldsTypes ==
    {ItemValue(VariantImpl(ty, j, {}), "FieldsType") :
        <<ty, j>> \in {e \in EnumTypes \X (0 .. MaxIndex) :
                          /\ e[2] < Len(MemberDecls(e[1]))
                          /\ MemberDecls(e[1])[e[2] + 1].list}}

\* C21: a unit-like enum variant (no associated data, E0::A) reports
\* FIELD_COUNT = 0 with FieldsType the NoType marker, and is thereby
\* distinguishable from a variant carrying an explicit empty field list
\* (E1::A()), which reports a real fields type.
C21_UnitVariantReportsNoType ==
    (Reflected /\ MemberKind(rty) = "variant") =>
        \A d \in rdescs.members :
            /\ ~VariantOf(d).list =>
                  /\ ItemValue(d, "FIELD_COUNT") = 0
                  /\ ItemValue(d, "FieldsType") = "NoType"
                  /\ ItemValue(d, "FieldsType") \notin ListedFieldsTypes
            /\ VariantOf(d).list =>
                  /\ ItemValue(d, "FIELD_COUNT") = VariantOf(d).fields
                  /\ ItemValue(d, "FieldsType") # "NoType"

C21_Witness ==
    /\ Reflected /\ rty = "E0"
    /\ \E d \in rdescs.members :
          /\ d.param = 0 /\ ~VariantOf(d).list
          /\ ItemValue(d, "FIELD_COUNT") = 0
          /\ ItemValue(d, "FieldsType") = "NoType"
          /\ ItemValue(VariantImpl("E1", 0, {}), "FIELD_COUNT") = 0
          /\ ItemValue(VariantImpl("E1", 0, {}), "FieldsType") = "()"

\* The scope the struct is reflected from could access the field directly.
Accessible(f) == f.public \/ rscope = "inside"

\* The provided field descriptor of index i gives this name and offset.
FieldAt(i, name, off) ==
    \E d \in rdescs.members :
        /\ d.param = i
        /\ ItemValue(d, "NAME") = name
        /\ ItemValue(d, "BYTE_OFFSET") = off

\* C22: a field is reflectable only from a scope that could access it
\* directly: reflecting the struct Meow { pub purr_level, hairballs
\* (private), pub scratch_couch } from another crate reports FIELD_COUNT = 2
\* with byte offsets {0, 8}, the private field has no descriptor, and the
\* visible fields occupy indices 0 and 1.
C22_PrivateFieldsNotReflected ==
    (Reflected /\ MemberKind(rty) = "field") =>
        /\ \A d \in rdescs.members :
              \E k \in 1 .. Len(MemberDecls(rty)) :
                  /\ MemberDecls(rty)[k].name = ItemValue(d, "NAME")
                  /\ MemberDecls(rty)[k].offset = ItemValue(d, "BYTE_OFFSET")
                  /\ Accessible(MemberDecls(rty)[k])
        /\ (rty = "Meow" /\ rscope = "outside") =>
              /\ ItemValue(rdescs.adt, "FIELD_COUNT") = 2
              /\ {ItemValue(d, "BYTE_OFFSET") : d \in rdescs.members} = {0, 8}
              /\ \A d \in rdescs.members : ItemValue(d, "NAME") # "hairballs"
              /\ FieldAt(0, "purr_level", 0)
              /\ FieldAt(1, "scratch_couch", 8)

C22_Witness ==
    /\ rpc = "done" /\ rty = "Meow" /\ rscope = "outside"
    /\ Cardinality(rdescs.members) = 2
    /\ FieldAt(0, "purr_level", 0) /\ FieldAt(1, "scratch_couch", 8)
    /\ \E k \in 1 .. Len(MemberDecls(rty)) :
          MemberDecls(rty)[k].name = "hairballs" /\ ~Accessible(MemberDecls(rty)[k])
    /\ vlog = <<0, 1>>

\* The pointer get_field and get_field_mut hand to as_ref / as_mut for the
\* i-th field of the owner: the owner's address moved by BYTE_OFFSET bytes,
\* as a pointer to the field's type.
FieldPtrs(i) ==
    {cast(x, FieldDescriptor(owner.ty, i).TypeSize) :
        x \in add(cast(owner.place, 1), FieldDescriptor(owner.ty, i).BYTE_OFFSET)}

\* C23: get_field and get_field_mut never fail, at run time or in constant
\* evaluation: given a valid owner reference and an in-bounds BYTE_OFFSET,
\* the intermediate null check (as_ref / as_mut via is_null) never yields
\* None, so unwrap_unchecked is never applied to None and a reference is
\* always returned.
C23_GetFieldNeverFails ==
    owner.ty \in StructTypes =>
        /\ \A i \in 0 .. (FIELD_COUNT(owner.ty) - 1) :
              /\ \A f \in FieldPtrs(i) :
                    /\ is_null(mode, f) = {FALSE}
                    /\ as_ref(mode, f) = {Some(f)}
                    /\ as_mut(mode, f) = {Some(f)}
              /\ \A ref \in get_field(mode, FieldDescriptor(owner.ty, i), owner.place)
                            \cup get_field_mut(mode, FieldDescriptor(owner.ty, i), owner.place) :
                    ~IsPoison(ref) /\ Dereferenceable(ref)
        /\ fidx # 0 - 1 => ~IsPoison(fref) /\ Dereferenceable(fref)
        /\ fmut # NoWrite => ~IsPoison(fmut.ref) /\ Dereferenceable(fmut.ref)

C23_Witness ==
    /\ mode = "ctfe" /\ owner.ty = "Padded"
    /\ fmut.idx = 0 /\ fmut.ref = cast(owner.place, 1)
    /\ fidx = 1 /\ fref = Ptr(owner.place.prov, owner.place.addr + 2, 2)
    /\ as_ref(mode, fref) = {Some(fref)}

\* A write through get_field_mut has been made.
Written == fmut # NoWrite

\* C28: for the same descriptor and the same owner, get_field_mut yields a
\* reference to the same address as get_field (owner_base + BYTE_OFFSET),
\* and a write through it changes only the size_of(field type) bytes of that
\* field: every other byte of the owner, and hence every other
\* non-overlapping field read by get_field, is unchanged.
C28_WriteChangesOnlyTheField ==
    Written =>
        LET desc == FieldDescriptor(owner.ty, fmut.idx)
        IN  /\ fmut.ref \in get_field(mode, desc, owner.place)
            /\ fmut.ref.addr = owner.place.addr + desc.BYTE_OFFSET
            /\ fmut.ref.sz = desc.TypeSize
            /\ ReadRef(mem, fmut.ref) = fmut.val
            /\ \A a \in Usize :
                  (a < fmut.ref.addr \/ a >= fmut.ref.addr + desc.TypeSize) =>
                      mem[a] = fmut.before[a]
            /\ \A j \in (0 .. (FIELD_COUNT(owner.ty) - 1)) \ {fmut.idx} :
               \A ref \in get_field(mode, FieldDescriptor(owner.ty, j), owner.place) :
                  ReadRef(mem, ref) = ReadRef(fmut.before, ref)
            /\ (fidx # 0 - 1 /\ fidx # fmut.idx) =>
                  fval = ReadRef(fmut.before, fref)

C28_Witness ==
    /\ Written /\ owner.ty = "Padded" /\ fmut.idx = 1
    /\ fmut.ref = Ptr(owner.place.prov, owner.place.addr + 2, 2)
    /\ fmut.val = <<1, 1>> /\ ReadRef(fmut.before, fmut.ref) = <<0, 0>>
    /\ ReadRef(mem, fmut.ref) = <<1, 1>>
    /\ fidx = 0 /\ fval = <<1>> /\ fval = ReadRef(fmut.before, fref)

\* The descriptors as they were established for the reflected declaration.
Established == introwospect(rty, rscope, rknown)

\* Reader rd has read the constants of a descriptor.
HasRead(rd) == seen[rd].trait # "none"

WentThereAndBack ==
    \/ op1 = "wrapping_add" /\ op2 = "wrapping_sub"
    \/ op1 = "wrapping_offset" /\ op2 = "wrapping_offset"

\* wrapping_add moved the address by +o * size_of::<T>() and wrapping_sub by
\* -o * size_of::<T>(), modulo 2^w.
MovedModulo ==
    /\ op1 = "wrapping_add" => q.addr = (p.addr + a1 * p.sz) % AddrSpace
    /\ op2 = "wrapping_sub" => r.addr = (q.addr - a1 * q.sz) % AddrSpace

Thin(ptr) == Ptr(ptr.prov, ptr.addr, ptr.sz)

\* C26: is_null looks only at the data address of the pointer (the metadata
\* of a wide pointer is ignored) and is one-sidedly conservative: it never
\* returns true for a pointer that is non-null at run time, while under
\* const evaluation it may return false for a pointer that is null at run
\* time (one offset out of bounds to address 0).
C26_IsNullConservative ==
    /\ is_null(mode, q) = is_null(mode, Thin(q))
    /\ \A n \in 0 .. MaxLen :
          is_null(mode, slice_from_raw_parts(Thin(q), n)) = is_null(mode, Thin(q))
    /\ (mode = "ctfe" /\ q.addr = 0 /\ q.prov \in Allocs) =>
          FALSE \in is_null(mode, q)
    /\ op2 = "is_null" =>
          /\ ret = BoolRet(TRUE) => q.addr = 0
          /\ mode = "rt" => ret = BoolRet(q.addr = 0)

C26_Witness ==
    /\ op2 = "is_null" /\ mode = "ctfe"
    /\ q = slice_from_raw_parts(Ptr(1, 0, 2), 2)
    /\ ~InBounds(q)
    /\ ret = BoolRet(FALSE)

\* as_ref, as_uninit_ref or as_uninit_slice has been called on q; ret.val is
\* the Option it returned.
OptionReturned == op2 \in {"as_ref", "as_uninit_ref", "as_uninit_slice"}

\* C27: as_ref, as_uninit_ref and as_uninit_slice return None exactly when
\* is_null reports the pointer null, and otherwise Some of a reference to
\* the same address (as_uninit_slice with the same element count as the raw
\* slice's len); none of them reads or modifies the pointee.
C27_NoneExactlyWhenNull ==
    OptionReturned =>
        /\ ~ret.val.some => TRUE \in is_null(mode, q)
        /\ ret.val.some =>
              /\ FALSE \in is_null(mode, q)
              /\ ret.val.ref.addr = q.addr
              /\ ret.val.ref.prov = q.prov
              /\ ret.val.ref.sz = q.sz
        /\ mode = "rt" => (ret.val.some <=> q.addr # 0)
        /\ (op2 = "as_ref" /\ ret.val.some) => ret.val.ref = q
        /\ (op2 = "as_uninit_slice" /\ ret.val.some) => ret.val.ref.len = len(q)
        /\ mem = Store(owner.ty, owner.vals, owner.place)

C27_Witness ==
    /\ op2 = "as_uninit_slice" /\ mode = "ctfe"
    /\ q = slice_from_raw_parts(Ptr(1, 2, 2), 2)
    /\ ret.val = Some(from_raw_parts(Ptr(1, 2, 2), 2))
    /\ ReadRef(mem, Ptr(1, 2, 2)) = <<1, 0>>

\* One of the comparisons has been made of q with r.
Compared == op2 \in {"eq", "cmp", "partial_cmp", "lt", "le", "gt", "ge"}
Reverse(o) == IF o = "Less" THEN "Greater" ELSE IF o = "Greater" THEN "Less" ELSE "Equal"

\* C29: the ordering on raw const pointers is total and consistent with
\* equality: cmp(a, b) is Less iff a < b, Equal iff a == b and Greater
\* otherwise; cmp(a, b) is the reverse of cmp(b, a); partial_cmp always
\* returns Some(cmp(a, b)); and lt/le/gt/ge agree with cmp.
C29_OrderTotalAndConsistent ==
    /\ Compared =>
          \/ ptr_lt(q, r) /\ ~ptr_eq(q, r) /\ ~ptr_lt(r, q)
          \/ ~ptr_lt(q, r) /\ ptr_eq(q, r) /\ ~ptr_lt(r, q)
          \/ ~ptr_lt(q, r) /\ ~ptr_eq(q, r) /\ ptr_lt(r, q)
    /\ op2 = "cmp" =>
          /\ ret.val \in {"Less", "Equal", "Greater"}
          /\ ret.val = "Less" <=> ptr_lt(q, r)
          /\ ret.val = "Equal" <=> ptr_eq(q, r)
          /\ ret.val = "Equal" <=> q = [r EXCEPT !.prov = q.prov]
          /\ ret.val = Reverse(cmp(r, q))
    /\ op2 = "partial_cmp" => ret.val.some /\ ret.val.ref = cmp(q, r)
    /\ op2 = "eq" => ret = BoolRet(cmp(q, r) = "Equal")
    /\ op2 = "lt" => ret = BoolRet(cmp(q, r) = "Less")
    /\ op2 = "le" => ret = BoolRet(cmp(q, r) # "Greater")
    /\ op2 = "gt" => ret = BoolRet(cmp(q, r) = "Greater")
    /\ op2 = "ge" => ret = BoolRet(cmp(q, r) # "Less")

\* Two raw slices at one address in different objects, the first shorter.
C29_Witness ==
    /\ op2 = "cmp" /\ ret = Ret("Less")
    /\ IsWide(q) /\ q.addr = r.addr /\ q.prov # r.prov /\ len(q) < len(r)

\* The lines parse_and_update_aux returned from: all but one it panicked on.
Parsed == IF ret = Panic THEN SubSeq(fed, 1, Len(fed) - 1) ELSE fed
\* The line starts with "aux-".
IsAuxLine(ln) ==
    Len(ln) >= 4 /\ ln[1] = "a" /\ ln[2] = "u" /\ ln[3] = "x" /\ ln[4] = "-"
\* The line is `name:value`; its value.
Names(name, ln) ==
    /\ Len(ln) > Len(name)
    /\ \A i \in 1 .. Len(name) : ln[i] = name[i]
    /\ ln[Len(name) + 1] = ":"
ValueIn(name, ln) == [i \in 1 .. (Len(ln) - Len(name) - 1) |-> ln[i + Len(name) + 1]]
\* The values of the `name:` lines parsed, in line order.
ValuesParsed(name) ==
    LET named == SelectSeq(Parsed, LAMBDA ln : Names(name, ln))
    IN [k \in 1 .. Len(named) |-> ValueIn(name, named[k])]
\* t is v without the spaces at its two ends.
IsTrimOf(t, v) ==
    /\ t = << >> \/ (t[1] # " " /\ t[Len(t)] # " ")
    /\ \E i, j \in 0 .. Len(v) :
          /\ i + j <= Len(v)
          /\ \A k \in 1 .. i : v[k] = " "
          /\ \A k \in (Len(v) - j + 1) .. Len(v) : v[k] = " "
          /\ t = [k \in 1 .. (Len(v) - i - j) |-> v[k + i]]
\* c is the name and the path v gives: v trimmed is name=path, and there is
\* no '=' in the name.
IsCrateOf(c, v) ==
    /\ Len(c) = 2
    /\ \A k \in 1 .. Len(c[1]) : c[1][k] # "="
    /\ IsTrimOf(c[1] \o <<"=">> \o c[2], v)
\* list is prev with zero or more elements appended.
Extends(list, prev) ==
    Len(list) >= Len(prev) /\ \A k \in 1 .. Len(prev) : list[k] = prev[k]

\* C30: parse_and_update_aux applied to any sequence of directive lines: a
\* line that does not start with "aux-" leaves AuxProps entirely unchanged;
\* builds, bins and crates only ever grow, by appending in line order
\* (trimmed values, an aux-crate value split at its first '=' into name and
\* path); and codegen_backend holds the trimmed value of the last
\* aux-codegen-backend line seen, never reverting to None.
C30_AuxPropsOnlyGrow ==
    /\ (fed # << >> /\ ~IsAuxLine(fed[Len(fed)])) => aux = was
    /\ Extends(aux.builds, was.builds)
    /\ Extends(aux.bins, was.bins)
    /\ Extends(aux.crates, was.crates)
    /\ was.codegen_backend.some => aux.codegen_backend.some
    /\ Len(aux.builds) = Len(ValuesParsed(AUX_BUILD))
    /\ \A k \in 1 .. Len(aux.builds) : IsTrimOf(aux.builds[k], ValuesParsed(AUX_BUILD)[k])
    /\ Len(aux.bins) = Len(ValuesParsed(AUX_BIN))
    /\ \A k \in 1 .. Len(aux.bins) : IsTrimOf(aux.bins[k], ValuesParsed(AUX_BIN)[k])
    /\ Len(aux.crates) = Len(ValuesParsed(AUX_CRATE))
    /\ \A k \in 1 .. Len(aux.crates) : IsCrateOf(aux.crates[k], ValuesParsed(AUX_CRATE)[k])
    /\ aux.codegen_backend.some <=> ValuesParsed(AUX_CODEGEN_BACKEND) # << >>
    /\ aux.codegen_backend.some =>
          IsTrimOf(aux.codegen_backend.ref,
                   ValuesParsed(AUX_CODEGEN_BACKEND)[Len(ValuesParsed(AUX_CODEGEN_BACKEND))])

\* A crate whose path has an '=' in it, a line that is no aux directive, and
\* a second code generation backend.
C30_Witness ==
    /\ Len(fed) = MaxLines
    /\ ~IsAuxLine(fed[2])
    /\ aux.crates = << <<<<"n">>, <<"p", "=", "q">>>> >>
    /\ was.codegen_backend = NoString
    /\ aux.codegen_backend = SomeString(<<"b">>)

====
